---- MODULE Spec2Model ----
(***************************************************************************)
(* A model of the ABCI bridge of many-rs (many-abci/src/abci_app.rs) and   *)
(* of the pieces of many-server it calls.                                  *)
(*                                                                         *)
(* Two replicas of the bridge are run side by side on the same sequence of *)
(* ABCI calls.  What they share is what consensus gives every replica (the *)
(* call, its transaction or header, the backend's answer up to the fields  *)
(* the backend stamps locally); what may differ is what each replica reads *)
(* from its own clock and what its own backend stamps on a response.       *)
(***************************************************************************)
EXTENDS Integers, Sequences, FiniteSets, TLC

(***************************************************************************)
(* Bounds of the model.                                                    *)
(***************************************************************************)
\* Number of deliver_tx calls in a run.
MaxDelivers == 2
\* Height at which the configuration enables the legacy_error_code migration.
LegacyHeight == 1
\* The block time the runs are centred on (seconds since the epoch).
BaseTime == 1000
\* Largest number of seconds Timestamp::new can turn into a system time.
MaxSystemTime == 5000

\* Number of operations on the store in a run.
MaxOps == 4
\* Number of events logged one after the other in a run.
MaxEvents == 257
\* Number of blocks the ledger commits in a run, and of events in a block.
MaxHeight == 257
MaxBlockEvents == 2
\* Number of commits of the ledger that fail in a run.
MaxFailures == 1
\* How deep the transaction of an event holds transactions.
MaxTxDepth == 1
\* The heights the migrations are invoked with.
MaxMigrationHeight == 4
\* Number of deliver_tx calls in a run of all the handlers.
MaxHandlerDelivers == 1
\* The maximum supply of a token.
MaxSupply == 3

(***************************************************************************)
(* Program constants.                                                      *)
(***************************************************************************)
CheckSuccess == 0
CheckCoseDeserializeError == 4
CheckMessageDeserializeError == 5
CheckRwLockPoisonedError == 6
CheckTimestampError == 7
CheckCannotGetSystemTimeError == 8
CheckTimestampOutsideOfRangeError == 9
CheckValidationError == 10

\* ManyAbciErrorCodes, used by query.
Success == 0
TransportError == 1
FrontendError == 2

DeliverSuccess == 0
DeliverTransportRequestError == 1
DeliverCoseDeserializeError == 2
DeliverTransportResponseError == 3
DeliverRwLockPoisonedError == 11

MANYABCI_DEFAULT_TIMEOUT == 300

\* lazy_static EPOCH: Timestamp::new(0)
EPOCH == 0

Replicas == {1, 2}

(***************************************************************************)
(* Option and Result values.                                               *)
(***************************************************************************)
None == <<>>
Some(x) == <<x>>
Ok(v) == [ok |-> TRUE, val |-> v]
Err(e) == [ok |-> FALSE, val |-> e]

(***************************************************************************)
(* Inputs.                                                                 *)
(***************************************************************************)
\* Offsets of a message timestamp from BaseTime: both sides of the timeout.
Offsets ==
    { 0 - (MANYABCI_DEFAULT_TIMEOUT + 1), 0 - MANYABCI_DEFAULT_TIMEOUT,
      0 - (MANYABCI_DEFAULT_TIMEOUT - 1), 0,
      MANYABCI_DEFAULT_TIMEOUT - 1, MANYABCI_DEFAULT_TIMEOUT,
      MANYABCI_DEFAULT_TIMEOUT + 1 }

MsgTimes == { BaseTime + d : d \in Offsets }

\* Bytes that are no COSE_Sign1 structure.
GarbageTx == [kind |-> "garbage", ts |-> None]
\* A COSE_Sign1 envelope whose payload is no request message.
CoseOnlyTx == [kind |-> "cose", ts |-> None]
\* A COSE_Sign1 envelope around a request message with timestamp ts.
RequestTx(ts) == [kind |-> "request", ts |-> ts]

Txs ==
    {GarbageTx, CoseOnlyTx}
    \cup { RequestTx(ts) : ts \in {None} \cup { Some(t) : t \in MsgTimes } }

\* The transactions consensus puts in blocks.
DeliverTxs == {GarbageTx, CoseOnlyTx, RequestTx(Some(BaseTime))}

\* Seconds of a block header: a time near the messages', and one that is
\* beyond what the platform's system time can hold.
HeaderTimes == {BaseTime, MaxSystemTime + 1}

\* What a replica may read from its own clock.
WallTimes == {BaseTime - MANYABCI_DEFAULT_TIMEOUT, BaseTime + MANYABCI_DEFAULT_TIMEOUT}

\* Heights of a block header: below, at and around the migration's height.
HeaderHeights == {0 - 1, 0, LegacyHeight - 1, LegacyHeight}

Headers ==
    {None} \cup
    { Some([time |-> t, height |-> h]) :
        t \in {None} \cup { Some(s) : s \in HeaderTimes }, h \in HeaderHeights }

Anonymous == "anonymous"

Both(x) == [r \in {1, 2} |-> x]

\* The data of a backend response: a value, or an error with its code.
ResponseData ==
    { <<"Ok", "value">>, <<"Err", "AttributeSpecific">>, <<"Err", "CouldNotRouteMessage">> }

\* What the backend of one replica stamps on a response on its own: nothing,
\* or its identity, the protocol version and the time its clock reads.
NoStamp == [from |-> Anonymous, version |-> None, timestamp |-> None]

\* The clocks of the two replicas never read the same time.
Clock(r) == IF r = 1 THEN BaseTime - MANYABCI_DEFAULT_TIMEOUT ELSE BaseTime + MANYABCI_DEFAULT_TIMEOUT

Stamp(r) == [from |-> "server", version |-> Some(1), timestamp |-> Some(Clock(r))]

Stamps == { <<a, b>> : a \in {NoStamp, Stamp(1)}, b \in {NoStamp, Stamp(2)} }

\* What send_envelope gives, up to the stamps.
Answers ==
    { [kind |-> "transport_error", data |-> <<>>],
      [kind |-> "no_payload", data |-> <<>>],
      [kind |-> "bad_payload", data |-> <<>>] }
    \cup { [kind |-> "response", data |-> d] : d \in ResponseData }

\* What else happens to a delivery: message_executed fails, or the response
\* cannot be serialized, or neither.
NoFate == [fails |-> FALSE, ser_fails |-> FALSE]
NoAnswer == [kind |-> "none", data |-> <<>>]

Fates == { NoFate, [fails |-> TRUE, ser_fails |-> FALSE], [fails |-> FALSE, ser_fails |-> TRUE] }

\* The environments of one deliver_tx: the answer, each replica's stamp on it
\* and the fate.  Every pair of stamps is listed with the fate that returns
\* the response, one pair with the fates that do not.
DeliverEnvs ==
    { [answer |-> a, stamp |-> Both(NoStamp), fate |-> NoFate] :
        a \in { x \in Answers : x.kind = "transport_error" } }
    \cup { [answer |-> a, stamp |-> Both(NoStamp), fate |-> f] :
             a \in { x \in Answers : x.kind \in {"no_payload", "bad_payload"} }, f \in Fates }
    \cup { [answer |-> a, stamp |-> s, fate |-> NoFate] :
             a \in { x \in Answers : x.kind = "response" }, s \in Stamps }
    \cup { [answer |-> a, stamp |-> <<Stamp(1), Stamp(2)>>, fate |-> f] :
             a \in { x \in Answers : x.kind = "response" }, f \in Fates \ {NoFate} }

(***************************************************************************)
(* 64-bit integers, as their eight bytes, most significant first.          *)
(***************************************************************************)
Byte == 0 .. 255

Zero64 == <<0, 0, 0, 0, 0, 0, 0, 0>>
One64 == <<0, 0, 0, 0, 0, 0, 0, 1>>
\* 2^63 - 1, the largest i64, and 2^63.
MaxI64 == <<127, 255, 255, 255, 255, 255, 255, 255>>
MinNegative64 == <<128, 0, 0, 0, 0, 0, 0, 0>>

\* b + 1 modulo 2^64.
RECURSIVE Increment64(_)
Increment64(b) ==
    IF b = <<>> THEN <<>>
    ELSE IF b[Len(b)] < 255
    THEN SubSeq(b, 1, Len(b) - 1) \o <<b[Len(b)] + 1>>
    ELSE Increment64(SubSeq(b, 1, Len(b) - 1)) \o <<0>>

\* 2^64 - b, for b # 0: the magnitude of the negative i64 with the bits of b.
Negate64(b) == Increment64([i \in DOMAIN b |-> 255 - b[i]])

\* An integer of any sign: its sign and the bytes of its magnitude.
Int64(negative, magnitude) == [negative |-> negative, magnitude |-> magnitude]

\* The value of a u64.
u64(b) == Int64(FALSE, b)

\* `x as i64` for a u64 x: the same bits, read in two's complement.
as_i64(b) == IF b[1] >= 128 THEN Int64(TRUE, Negate64(b)) ELSE Int64(FALSE, b)

(***************************************************************************)
(* Decoding of a transaction (coset, many-protocol).                       *)
(***************************************************************************)
\* CoseSign1::from_slice: the bytes are a COSE_Sign1 structure or they are not.
from_slice(tx) ==
    IF tx.kind = "garbage" THEN Err("not a COSE_Sign1") ELSE Ok(tx)

\* RequestMessage::try_from(&cose): the payload is a request message or not.
try_from(cose) ==
    IF cose.kind = "request"
    THEN Ok([timestamp |-> IF cose.ts = None THEN None ELSE Some([secs |-> cose.ts[1]])])
    ELSE Err("not a request message")

(***************************************************************************)
(* Timestamp (many-types).                                                 *)
(***************************************************************************)
\* Timestamp::new(secs): fails when the seconds are no system time.
timestamp_new(secs) ==
    IF secs <= MaxSystemTime THEN Ok([secs |-> secs]) ELSE Err("no system time")

\* Timestamp::now(), given what the clock reads.
timestamp_now(wall) == [secs |-> wall]

\* Timestamp::as_system_time: the instant, in seconds after the epoch.
as_system_time(ts) == Ok(ts.secs)

(***************************************************************************)
(* ResponseMessage and its byte encoding (many-protocol): a map of numbered*)
(* fields, an absent option being left out.                                *)
(***************************************************************************)
DefaultResponse ==
    [from |-> Anonymous, version |-> None, data |-> <<"Ok", "empty">>, timestamp |-> None]

to_bytes(m) ==
    (IF m.version = None THEN <<>> ELSE << <<0, m.version[1]>> >>)
    \o << <<1, m.from>>, <<4, m.data>> >>
    \o (IF m.timestamp = None THEN <<>> ELSE << <<5, m.timestamp[1]>> >>)

Field(b, k) == { b[i][2] : i \in { j \in DOMAIN b : b[j][1] = k } }

from_bytes(b) ==
    IF \/ \E i \in DOMAIN b : b[i][1] \notin {0, 1, 4, 5}
       \/ Field(b, 1) = {}
       \/ Field(b, 4) = {}
    THEN Err("not a response message")
    ELSE Ok([from |-> CHOOSE x \in Field(b, 1) : TRUE,
             version |-> IF Field(b, 0) = {} THEN None
                         ELSE Some(CHOOSE x \in Field(b, 0) : TRUE),
             data |-> CHOOSE x \in Field(b, 4) : TRUE,
             timestamp |-> IF Field(b, 5) = {} THEN None
                           ELSE Some(CHOOSE x \in Field(b, 5) : TRUE)])

\* ManyErrorCode::is_attribute_specific
is_attribute_specific(code) == code = "AttributeSpecific"

(***************************************************************************)
(* The backend, seen from the bridge: send_envelope.                       *)
(***************************************************************************)
\* The response envelope the backend of a replica returns for an answer.
send_envelope(answer, stamp) ==
    CASE answer.kind = "transport_error" -> Err("transport")
      [] answer.kind = "no_payload" -> Ok([payload |-> None])
      [] answer.kind = "bad_payload" -> Ok([payload |-> Some(<< <<99, 0>> >>)])
      [] OTHER ->
            Ok([payload |-> Some(to_bytes([from |-> stamp.from,
                                           version |-> stamp.version,
                                           data |-> answer.data,
                                           timestamp |-> stamp.timestamp]))])

(***************************************************************************)
(* The request validator (many-server/src/validator.rs).  The bridge is    *)
(* created with the unit validator; with_validator installs another, here  *)
(* the cache of executed envelopes.                                        *)
(***************************************************************************)
\* impl RequestValidator for (): the trait's defaults.
unit_validate_envelope(envelope) == Ok(<<>>)
unit_validate_request(request) == Ok(<<>>)
unit_message_executed(envelope, response) == Ok(<<>>)

\* The cache: an envelope it holds is a replay.
cache_validate_envelope(cache, envelope) ==
    IF envelope \in cache THEN Err("already in cache") ELSE Ok(<<>>)

\* The cache records the envelope; its store may fail.
cache_message_executed(cache, envelope, response, fails) ==
    IF fails THEN Err("cache store failed") ELSE Ok(cache \cup {envelope})

\* dyn RequestValidator: the hooks of the validator installed.
validate_envelope(st, envelope) ==
    IF st.validator = "unit"
    THEN unit_validate_envelope(envelope)
    ELSE cache_validate_envelope(st.cache, envelope)

validate_request(st, request) == unit_validate_request(request)

\* Ok(the cache afterwards) or Err.
message_executed(st, envelope, response, fails) ==
    IF st.validator = "unit"
    THEN (IF unit_message_executed(envelope, response).ok THEN Ok(st.cache) ELSE Err("unit"))
    ELSE cache_message_executed(st.cache, envelope, response, fails)

(***************************************************************************)
(* many-server/src/server.rs: _validate_time.                              *)
(***************************************************************************)
validate_time_late(message, now, timeout_in_secs) ==
    IF timeout_in_secs = 0 THEN Err("timestamp_out_of_range")
    ELSE IF message.timestamp = None THEN Err("required_field_missing")
    ELSE LET r == as_system_time(message.timestamp[1]) IN
         IF ~r.ok THEN r
         ELSE LET ts == r.val
                  early == IF ts < now THEN ts ELSE now
                  later == IF ts < now THEN now ELSE ts
                  diff == later - early
              IN  IF diff > timeout_in_secs
                  THEN Err("timestamp_out_of_range")
                  ELSE Ok(<<>>)

validate_time(message, now, timeout_in_secs) ==
    IF timeout_in_secs = 0 THEN Err("timestamp_out_of_range")
    ELSE IF message.timestamp = None THEN Err("required_field_missing")
    ELSE LET r == as_system_time(message.timestamp[1]) IN
         IF ~r.ok THEN r
         ELSE LET ts == r.val
                  early == IF ts < now THEN ts ELSE now
                  later == IF ts < now THEN now ELSE ts
                  diff == later - early
              IN  IF diff >= timeout_in_secs
                  THEN Err("timestamp_out_of_range")
                  ELSE Ok(<<>>)

(***************************************************************************)
(* The migrations of the bridge (AbciAppMigrations, a MigrationSet).       *)
(***************************************************************************)
\* An is_active that holds at the block height only.
is_active_at(m) == m.enabled /\ m.block_height = m.current_height

\* MigrationSet::is_active: an enabled migration whose height is reached.
is_active(m) == m.enabled /\ m.block_height <= m.current_height

\* MigrationSet::update_at_height: records the height, then runs the
\* migrations, one of which may fail.
update_at_height(m, height, fails) ==
    [migrations |-> [m EXCEPT !.current_height = height],
     result |-> IF fails THEN Err("migration failed") ELSE Ok(<<>>)]

(***************************************************************************)
(* AbciApp (many-abci/src/abci_app.rs).  st is the state of one bridge:    *)
(* [validator, cache, cache_poisoned, migrations, block_time].             *)
(***************************************************************************)
\* The block_time lock: its only writer, begin_block, holds the guard for one
\* assignment and cannot panic under it, so the lock is never poisoned.
block_time_poisoned == FALSE

\* The migrations lock: its only writer, begin_block, holds the guard around
\* update_at_height, which returns its errors, so the lock is never poisoned.
migrations_poisoned == FALSE

CheckResult(result, reached) == [result |-> result, reached |-> reached]

\* do_check_tx, "Run the same validator as the server would".
check_validate_open(st, cose, message) ==
    IF ~validate_envelope(st, cose).ok
    THEN CheckResult(Err(<<CheckValidationError, "Transaction already in cache">>),
                     {"validate_envelope"})
    ELSE LET q == validate_request(st, message) IN
         IF ~q.ok
         THEN CheckResult(Err(<<CheckValidationError, q.val>>),
                          {"validate_envelope", "validate_request"})
         ELSE CheckResult(Ok(<<>>), {"validate_envelope", "validate_request"})

check_validate_lenient(st, cose, message) ==
    IF st.cache_poisoned
    THEN CheckResult(Err(<<CheckRwLockPoisonedError, "poisoned lock">>), {})
    ELSE LET q == validate_request(st, message) IN
         IF ~q.ok
         THEN CheckResult(Err(<<CheckValidationError, q.val>>),
                          {"validate_envelope", "validate_request"})
         ELSE IF ~validate_envelope(st, cose).ok
         THEN CheckResult(Err(<<CheckValidationError, "Transaction already in cache">>),
                          {"validate_envelope", "validate_request"})
         ELSE CheckResult(Ok(<<>>), {"validate_envelope", "validate_request"})

check_validate(st, cose, message) ==
    IF st.cache_poisoned
    THEN CheckResult(Err(<<CheckRwLockPoisonedError, "poisoned lock">>), {})
    ELSE IF ~validate_envelope(st, cose).ok
    THEN CheckResult(Err(<<CheckValidationError, "Transaction already in cache">>),
                     {"validate_envelope"})
    ELSE LET q == validate_request(st, message) IN
         IF ~q.ok
         THEN CheckResult(Err(<<CheckValidationError, q.val>>),
                          {"validate_envelope", "validate_request"})
         ELSE CheckResult(Ok(<<>>), {"validate_envelope", "validate_request"})

\* do_check_tx, "Check the time of the transaction".
check_time(st, message, wall, reached) ==
    IF block_time_poisoned
    THEN CheckResult(Err(<<CheckRwLockPoisonedError, "poisoned lock">>), reached)
    ELSE LET now == IF st.block_time = None
                    THEN Ok(timestamp_now(wall))
                    ELSE timestamp_new(st.block_time[1])
         IN
         IF ~now.ok
         THEN CheckResult(Err(<<CheckTimestampError, now.val>>), reached)
         ELSE LET sys == as_system_time(now.val) IN
              IF ~sys.ok
              THEN CheckResult(Err(<<CheckCannotGetSystemTimeError, sys.val>>), reached)
              ELSE LET t == validate_time(message, sys.val, MANYABCI_DEFAULT_TIMEOUT) IN
                   IF ~t.ok
                   THEN CheckResult(Err(<<CheckTimestampOutsideOfRangeError, t.val>>),
                                    reached \cup {"validate_time"})
                   ELSE CheckResult(Ok(<<>>), reached \cup {"validate_time"})

\* do_check_tx, the two decodings.
do_check_tx_decode(tx, cose, message) ==
    IF ~cose.ok
    THEN CheckResult(Err(<<CheckCoseDeserializeError, cose.val>>), {})
    ELSE IF ~message.ok
    THEN CheckResult(Err(<<CheckMessageDeserializeError, message.val>>), {})
    ELSE CheckResult(Ok(<<>>), {})

do_check_tx(st, tx, wall) ==
    LET cose == from_slice(tx)
        message == IF cose.ok THEN try_from(cose.val) ELSE cose
        d == do_check_tx_decode(tx, cose, message)
    IN  IF ~d.result.ok THEN d
        ELSE LET v == check_validate(st, cose.val, message.val) IN
             IF ~v.result.ok THEN v
             ELSE check_time(st, message.val, wall, v.reached)

Response(code, data, log) == [kind |-> "response", code |-> code, data |-> data, log |-> log]
\* The handler panicked: nothing is returned.
Panicked == [kind |-> "panic", code |-> 0 - 1, data |-> <<>>, log |-> "message_executed failed"]

\* check_tx: the response and the validator hooks it reached.
check_tx(st, tx, wall) ==
    LET r == do_check_tx(st, tx, wall) IN
    [resp |-> IF r.result.ok
              THEN Response(CheckSuccess, <<>>, "")
              ELSE Response(r.result.val[1], <<>>, r.result.val[2]),
     reached |-> r.reached]

\* A call of the backend through many_client.call_: the method, its argument
\* and whether an answer came back.
Rpc(method, arg, ok) == [method |-> method, arg |-> arg, ok |-> ok]

\* What a handler other than check_tx and deliver_tx did: the state of the
\* bridge afterwards, its response, its steps in order and its backend calls.
Handled(st, resp, steps, rpc) == [st |-> st, resp |-> resp, steps |-> steps, rpc |-> rpc]

ResponseBeginBlock ==
    [kind |-> "response", code |-> 0, data |-> <<>>, log |-> "", events |-> <<>>]

begin_block_header(header) ==
    IF header = None THEN [time |-> None, height |-> None]
    ELSE [time |-> IF header[1].time = None THEN None ELSE Some(header[1].time[1]),
          height |-> Some(IF header[1].height > 0 THEN header[1].height ELSE 0)]

begin_block_strict(st, header, update_fails, call_fails) ==
    LET h == begin_block_header(header)
        locked == h.height # None /\ ~migrations_poisoned
        u == IF locked THEN update_at_height(st.migrations, h.height[1], update_fails)
             ELSE [migrations |-> st.migrations, result |-> Ok(<<>>)]
    IN  IF ~u.result.ok
        THEN Handled([st EXCEPT !.migrations = u.migrations],
                     [ResponseBeginBlock EXCEPT !.kind = "panic"],
                     <<"update_at_height">>, <<>>)
        ELSE Handled([st EXCEPT !.migrations = u.migrations,
                                !.block_time = IF block_time_poisoned THEN @ ELSE h.time],
                     ResponseBeginBlock,
                     (IF locked THEN <<"update_at_height">> ELSE <<>>)
                        \o (IF block_time_poisoned THEN <<>> ELSE <<"block_time">>)
                        \o <<"abci.beginBlock">>,
                     <<Rpc("abci.beginBlock", [time |-> h.time], ~call_fails)>>)

\* begin_block: the migrations are updated at the height of the header, the
\* time of the header is recorded and sent on to the backend.  The results of
\* update_at_height and of the backend call are dropped.
begin_block(st, header, update_fails, call_fails) ==
    LET h == begin_block_header(header)
        locked == h.height # None /\ ~migrations_poisoned
        u == IF locked THEN update_at_height(st.migrations, h.height[1], update_fails)
             ELSE [migrations |-> st.migrations, result |-> Ok(<<>>)]
    IN  Handled([st EXCEPT !.migrations = u.migrations,
                            !.block_time = IF block_time_poisoned THEN @ ELSE h.time],
                ResponseBeginBlock,
                (IF locked THEN <<"update_at_height">> ELSE <<>>)
                   \o (IF block_time_poisoned THEN <<>> ELSE <<"block_time">>)
                   \o <<"abci.beginBlock">>,
                <<Rpc("abci.beginBlock", [time |-> h.time], ~call_fails)>>)

normalize_keep_timestamp(response) ==
    [response EXCEPT !.from = Anonymous, !.version = None]

normalize_keep_from(response) ==
    [response EXCEPT !.version = None, !.timestamp = Some(EPOCH)]

\* deliver_tx: from, version and timestamp of the response are overwritten.
normalize(response) ==
    [response EXCEPT !.from = Anonymous, !.version = None, !.timestamp = Some(EPOCH)]

legacy_error_code_inverted(st, response) ==
    IF ~migrations_poisoned /\ ~is_active(st.migrations)
    THEN IF response.data[1] = "Err" /\ is_attribute_specific(response.data[2])
         THEN [response EXCEPT !.data = <<"Err", "Unknown">>]
         ELSE response
    ELSE response

\* deliver_tx: the correction of the error code under the migration.
legacy_error_code(st, response) ==
    IF ~migrations_poisoned /\ is_active(st.migrations)
    THEN IF response.data[1] = "Err" /\ is_attribute_specific(response.data[2])
         THEN [response EXCEPT !.data = <<"Err", "Unknown">>]
         ELSE response
    ELSE response

Executed(outcome, st, calls) == [outcome |-> outcome, st |-> st, calls |-> calls]

record_executed_skip(st, cose, response, fails) ==
    IF st.cache_poisoned
    THEN Executed("poisoned", st, <<>>)
    ELSE Executed("ok", st, <<>>)

record_executed_no_panic(st, cose, response, fails) ==
    IF st.cache_poisoned
    THEN Executed("poisoned", st, <<>>)
    ELSE LET r == message_executed(st, cose, response, fails)
             call == [envelope |-> cose, response |-> response]
         IN  IF ~r.ok
             THEN Executed("poisoned", st, <<call>>)
             ELSE Executed("ok", [st EXCEPT !.cache = r.val], <<call>>)

\* A block that calls message_executed although the lock is poisoned.
record_executed_poisoned(st, cose, response, fails) ==
    LET r == message_executed(st, cose, response, fails)
        call == [envelope |-> cose, response |-> response]
    IN  IF st.cache_poisoned
        THEN Executed("poisoned", IF r.ok THEN [st EXCEPT !.cache = r.val] ELSE st, <<call>>)
        ELSE IF ~r.ok
        THEN Executed("panic", [st EXCEPT !.cache_poisoned = TRUE], <<call>>)
        ELSE Executed("ok", [st EXCEPT !.cache = r.val], <<call>>)

\* A block that hands message_executed the response without its timestamp.
record_executed_unstamped(st, cose, response, fails) ==
    IF st.cache_poisoned
    THEN Executed("poisoned", st, <<>>)
    ELSE LET handed == [response EXCEPT !.timestamp = None]
             r == message_executed(st, cose, handed, fails)
             call == [envelope |-> cose, response |-> handed]
         IN  IF ~r.ok
             THEN Executed("panic", [st EXCEPT !.cache_poisoned = TRUE], <<call>>)
             ELSE Executed("ok", [st EXCEPT !.cache = r.val], <<call>>)

\* deliver_tx: the block that takes the write lock of the cache and calls
\* message_executed.  The panic unwinds with the write guard alive, which
\* poisons the lock.
\* A cache block that calls message_executed and keeps the cache as it was.
record_executed_unrecorded(st, cose, response, fails) ==
    IF st.cache_poisoned
    THEN Executed("poisoned", st, <<>>)
    ELSE LET r == message_executed(st, cose, response, fails)
             call == [envelope |-> cose, response |-> response]
         IN  IF ~r.ok
             THEN Executed("panic", [st EXCEPT !.cache_poisoned = TRUE], <<call>>)
             ELSE Executed("ok", st, <<call>>)

record_executed(st, cose, response, fails) ==
    IF st.cache_poisoned
    THEN Executed("poisoned", st, <<>>)
    ELSE LET r == message_executed(st, cose, response, fails)
             call == [envelope |-> cose, response |-> response]
         IN  IF ~r.ok
             THEN Executed("panic", [st EXCEPT !.cache_poisoned = TRUE], <<call>>)
             ELSE Executed("ok", [st EXCEPT !.cache = r.val], <<call>>)

Delivered(st, resp, sent, calls) == [st |-> st, resp |-> resp, sent |-> sent, calls |-> calls]

\* deliver_tx.  sent: the envelope went to the backend and an answer came
\* back; calls: the calls of message_executed, in order.
deliver_tx(st, tx, answer, stamp, fails, ser_fails) ==
    LET cose == from_slice(tx) IN
    IF ~cose.ok
    THEN Delivered(st, Response(DeliverCoseDeserializeError, <<>>, cose.val), FALSE, <<>>)
    ELSE
    LET sent == send_envelope(answer, stamp) IN
    IF ~sent.ok
    THEN Delivered(st, Response(DeliverTransportRequestError, <<>>, sent.val), FALSE, <<>>)
    ELSE
    LET payload == IF sent.val.payload = None THEN <<>> ELSE sent.val.payload[1]
        decoded == from_bytes(payload)
        response0 == IF decoded.ok THEN decoded.val ELSE DefaultResponse
        response == legacy_error_code(st, normalize(response0))
        e == record_executed(st, cose.val, response, fails)
    IN  CASE e.outcome = "poisoned" ->
                Delivered(e.st, Response(DeliverRwLockPoisonedError, <<>>, ""), TRUE, e.calls)
          [] e.outcome = "panic" ->
                Delivered(e.st, Panicked, TRUE, e.calls)
          [] OTHER ->
                IF ser_fails
                THEN Delivered(e.st, Response(DeliverTransportResponseError, <<>>, ""),
                               TRUE, e.calls)
                ELSE Delivered(e.st, Response(DeliverSuccess, to_bytes(response), ""),
                               TRUE, e.calls)

(***************************************************************************)
(* info, query, end_block and commit.  An answer of the backend to an      *)
(* abci.* call is a transport error, bytes that do not decode, or the      *)
(* encoded value.                                                          *)
(***************************************************************************)
TransportFailed == [kind |-> "transport_error", data |-> <<>>]
Undecodable == [kind |-> "undecodable", data |-> <<>>]
AbciInfo(height, hash) == [kind |-> "map", data |-> [height |-> height, hash |-> hash]]
AbciCommitInfo(retain_height, hash) ==
    [kind |-> "map", data |-> [retain_height |-> retain_height, hash |-> hash]]

\* many_client.call_: the payload of the answer, or the error of the transport.
call_(answer) == IF answer.kind = "transport_error" THEN Err("transport") ELSE Ok(answer)

\* minicbor::decode of a payload as a map of two fields.
decode(payload) ==
    IF payload.kind = "map" THEN Ok(payload.data) ELSE Err("deserialization error")

get_abci_info_(answer) ==
    LET payload == call_(answer) IN
    IF ~payload.ok THEN payload ELSE decode(payload.val)

ResponseInfo(data, version, app_version, last_block_height, last_block_app_hash) ==
    [kind |-> "response", code |-> 0, data |-> data, log |-> "", version |-> version,
     app_version |-> app_version, last_block_height |-> last_block_height,
     last_block_app_hash |-> last_block_app_hash]

info(st, answer) ==
    LET i == get_abci_info_(answer)
        rpc == <<Rpc("abci.info", <<>>, answer.kind # "transport_error")>>
    IN  IF ~i.ok
        THEN Handled(st, ResponseInfo("An error occurred during call to abci.info", "", 0,
                                      u64(Zero64), <<>>),
                     <<"abci.info">>, rpc)
        ELSE Handled(st, ResponseInfo("many-abci-bridge", "CARGO_PKG_VERSION", 1,
                                      as_i64(i.val.height), i.val.hash),
                     <<"abci.info">>, rpc)

ResponseQuery(code, log, value) ==
    [kind |-> "response", code |-> code, data |-> <<>>, log |-> log, value |-> value]

\* query: the envelope goes to the backend as it came; to_vec_fails: the
\* answer cannot be serialized.
query(st, tx, answer, stamp, to_vec_fails) ==
    LET cose == from_slice(tx) IN
    IF ~cose.ok
    THEN Handled(st, ResponseQuery(FrontendError, cose.val, <<>>), <<>>, <<>>)
    ELSE LET value == send_envelope(answer, stamp) IN
         IF ~value.ok
         THEN Handled(st, ResponseQuery(TransportError, value.val, <<>>),
                      <<"send_envelope">>, <<>>)
         ELSE IF to_vec_fails
         THEN Handled(st, ResponseQuery(FrontendError, "to_vec", <<>>),
                      <<"send_envelope">>, <<>>)
         ELSE Handled(st, ResponseQuery(Success, "", value.val), <<"send_envelope">>, <<>>)

ResponseEndBlock == [kind |-> "response", code |-> 0, data |-> <<>>, log |-> ""]

end_block(st, call_fails) ==
    Handled(st, ResponseEndBlock, <<"abci.endBlock">>,
            <<Rpc("abci.endBlock", <<>>, ~call_fails)>>)

ResponseCommit(data, retain_height) ==
    [kind |-> "response", code |-> 0, data |-> data, log |-> "",
     retain_height |-> retain_height]

\* The handler panicked in minicbor::decode(..).unwrap().
CommitPanicked ==
    [kind |-> "panic", code |-> 0 - 1, data |-> <<>>, log |-> "unwrap on Err",
     retain_height |-> u64(Zero64)]

\* commit: the hash and the retain_height of the backend's answer.
commit(st, answer) ==
    LET msg == call_(answer)
        rpc == <<Rpc("abci.commit", <<>>, answer.kind # "transport_error")>>
    IN  IF ~msg.ok
        THEN Handled(st, ResponseCommit(msg.val, u64(Zero64)), <<"abci.commit">>, rpc)
        ELSE LET inf == decode(msg.val) IN
             IF ~inf.ok
             THEN Handled(st, CommitPanicked, <<"abci.commit">>, rpc)
             ELSE Handled(st, ResponseCommit(inf.val.hash, as_i64(inf.val.retain_height)),
                          <<"abci.commit">>, rpc)

\* init_chain and flush: the default response, and nothing else.
ResponseInitChain == [kind |-> "response", code |-> 0, data |-> <<>>, log |-> ""]

init_chain(st) == Handled(st, ResponseInitChain, <<>>, <<>>)

ResponseFlush == [kind |-> "response", code |-> 0, data |-> <<>>, log |-> ""]

flush(st) == Handled(st, ResponseFlush, <<>>, <<>>)

(***************************************************************************)
(* EventId (many-modules/src/_4_events.rs): a vector of bytes, ordered as  *)
(* vectors of bytes are.  Arithmetic goes through BigUint and back.         *)
(***************************************************************************)
\* The big-endian digits of a BigUint carry no leading zero; zero has none.
RECURSIVE from_bytes_be(_)
from_bytes_be(bytes) ==
    IF bytes = <<>> THEN <<>>
    ELSE IF bytes[1] = 0 THEN from_bytes_be(Tail(bytes))
    ELSE bytes

\* BigUint::to_bytes_be: the digits, and one zero byte for zero.
to_bytes_be(n) == IF n = <<>> THEN <<0>> ELSE n

\* n + 1 on the digits of a BigUint.
RECURSIVE BigUint_add_one(_)
BigUint_add_one(n) ==
    IF n = <<>> THEN <<1>>
    ELSE IF n[Len(n)] < 255
    THEN SubSeq(n, 1, Len(n) - 1) \o <<n[Len(n)] + 1>>
    ELSE BigUint_add_one(SubSeq(n, 1, Len(n) - 1)) \o <<0>>

\* impl From<Vec<u8>> for EventId
EventId_from_vec(t) == t

\* impl From<BigUint> for EventId
EventId_from_BigUint(b) == to_bytes_be(b)

\* impl Add<u32> for EventId, for rhs = 1
EventId_add_one(id) == EventId_from_BigUint(BigUint_add_one(from_bytes_be(id)))

\* The derived Ord of EventId is that of its bytes: the first byte that
\* differs decides, and a strict prefix is smaller.
RECURSIVE EventId_lt(_, _)
EventId_lt(a, b) ==
    IF b = <<>> THEN FALSE
    ELSE IF a = <<>> THEN TRUE
    ELSE IF a[1] # b[1] THEN a[1] < b[1]
    ELSE EventId_lt(Tail(a), Tail(b))

(***************************************************************************)
(* KvStoreStorage (many-kvstore/src/storage.rs).  The persistent store is  *)
(* the tree the operations apply their batches to (tree) and what commit    *)
(* has written of it (disk).  A tree holds the reserved keys, the values    *)
(* and their metadata, and the events by id.                                *)
(***************************************************************************)
KVSTORE_ROOT == "s"
KVSTORE_ACL_ROOT == "a"

Keys == {"k"}
Values == {"v"}
Owner == "owner"
NewOwner == "new owner"

\* A function without arguments: no key is set.
NoEntries == [k \in {} |-> <<>>]

\* EventId::from(vec![0])
InitialEventId == EventId_from_vec(<<0>>)

\* A store as InnerStorage::open gives it for a new path.
EmptyTree ==
    [identity |-> None, height |-> None, latest_event_id |-> None,
     subresource_id |-> None, events |-> {},
     a |-> NoEntries, s |-> NoEntries]

\* persistent_store.apply of one Put on a reserved key.
apply(tree, key, value) ==
    CASE key = "/config/identity" -> [tree EXCEPT !.identity = Some(value)]
      [] key = "/height" -> [tree EXCEPT !.height = Some(value)]
      [] key = "/latest_event_id" -> [tree EXCEPT !.latest_event_id = Some(value)]
      [] key = "/config/subresource_id" -> [tree EXCEPT !.subresource_id = Some(value)]

\* persistent_store.apply of one Put under a prefix.
apply_under(tree, prefix, key, value) ==
    IF prefix = KVSTORE_ACL_ROOT
    THEN [tree EXCEPT !.a = (key :> value) @@ @]
    ELSE [tree EXCEPT !.s = (key :> value) @@ @]

\* persistent_store.root_hash: a function of the keys and values of the tree,
\* different for different trees.
root_hash(tree) == <<"root hash of", tree>>

\* Address::to_vec and Address::from_bytes: the bytes of an identity.
Address_to_vec(a) == <<"bytes of", a>>

Address_from_bytes(bytes) ==
    IF Len(bytes) = 2 /\ bytes[1] = "bytes of" THEN Ok(bytes[2]) ELSE Err("invalid identity")

\* Encode and Decode for EventId: a byte string of the bytes of the id.
EventId_encode(id) == [cbor |-> "bytes", bytes |-> id]

EventId_decode(item) ==
    IF item.cbor = "bytes" THEN Ok(EventId_from_vec(item.bytes)) ELSE Err("unexpected type")

\* u32::to_be_bytes and u32::from_be_bytes
u32_to_be_bytes(n) ==
    <<n \div 16777216, (n \div 65536) % 256, (n \div 256) % 256, n % 256>>

u32_from_be_bytes(bytes) ==
    ((bytes[1] * 256 + bytes[2]) * 256 + bytes[3]) * 256 + bytes[4]

\* minicbor::to_vec of the metadata of a key.
Metadata_to_vec(meta) == [cbor |-> "metadata", of |-> meta]

\* The acl of a new store that has no keys.
NoAcl == NoEntries

\* The batch of the entries of the acl applied, in the order of the keys.
RECURSIVE apply_acl(_, _)
apply_acl(tree, acl) ==
    IF DOMAIN acl = {} THEN tree
    ELSE LET k == CHOOSE k \in DOMAIN acl : TRUE IN
         apply_acl(apply_under(tree, KVSTORE_ACL_ROOT, k, Metadata_to_vec(acl[k])),
                   [j \in DOMAIN acl \ {k} |-> acl[j]])

\* A new that leaves the acl out.
KvStoreStorage_new_without_acl(acl, identity, blockchain) ==
    LET seeded == apply(apply(EmptyTree, "/config/identity", Address_to_vec(identity)),
                        "/latest_event_id", EventId_encode(InitialEventId))
    IN  [tree |-> seeded, disk |-> seeded, blockchain |-> blockchain,
         latest_event_id |-> InitialEventId, current_time |-> None,
         current_hash |-> None, next_subresource |-> 0, root_identity |-> identity]

\* KvStoreStorage::new
KvStoreStorage_new(acl, identity, blockchain) ==
    LET seeded == apply(apply_acl(apply(EmptyTree, "/config/identity",
                                        Address_to_vec(identity)),
                                  acl),
                        "/latest_event_id", EventId_encode(InitialEventId))
    IN  [tree |-> seeded, disk |-> seeded, blockchain |-> blockchain,
         latest_event_id |-> InitialEventId, current_time |-> None,
         current_hash |-> None, next_subresource |-> 0, root_identity |-> identity]

\* KvStoreStorage::load, of what is on the disk of the path.
KvStoreStorage_load(disk, blockchain) ==
    LET next_subresource ==
            IF disk.subresource_id = None THEN 0
            ELSE u32_from_be_bytes(disk.subresource_id[1])
    IN  IF disk.identity = None
        THEN Err("Could not find key '/config/identity' in storage.")
        ELSE LET root_identity == Address_from_bytes(disk.identity[1]) IN
             IF ~root_identity.ok THEN root_identity
             ELSE IF disk.latest_event_id = None
             THEN Err("Could not find key '/latest_event_id'")
             ELSE LET latest_event_id == EventId_decode(disk.latest_event_id[1]) IN
                  IF ~latest_event_id.ok THEN latest_event_id
                  ELSE Ok([tree |-> disk, disk |-> disk, blockchain |-> blockchain,
                           latest_event_id |-> latest_event_id.val,
                           current_time |-> None, current_hash |-> None,
                           next_subresource |-> next_subresource,
                           root_identity |-> root_identity.val])

\* _get: the value of the key under the prefix.
kvstore__get(st, key, prefix) ==
    LET under == IF prefix = KVSTORE_ACL_ROOT THEN st.tree.a ELSE st.tree.s IN
    Ok(IF key \in DOMAIN under THEN Some(under[key]) ELSE None)

\* get_metadata
get_metadata(st, key) == kvstore__get(st, key, KVSTORE_ACL_ROOT)

set_time(st, time) == [st EXCEPT !.current_time = Some(time)]

\* now: the time set by set_time, or else what the clock reads.
now(st, wall) == IF st.current_time = None THEN timestamp_now(wall) ELSE st.current_time[1]

get_height(st) == IF st.tree.height = None THEN 0 ELSE st.tree.height[1]

\* inc_height: the height before, and the store with /height put.
inc_height(st) ==
    LET current_height == get_height(st) IN
    [st |-> [st EXCEPT !.tree = apply(@, "/height", current_height + 1)],
     val |-> current_height]

\* persistent_store.commit: what was applied is written.
persistent_store_commit(st) == [st EXCEPT !.disk = st.tree]

\* What an operation on the store did: the store after it, what it returned
\* and the calls it made on the persistent store and on the event log.
Done(st, val, steps) == [st |-> st, val |-> val, steps |-> steps]

\* log_event: the next id, the time of now(), and the event put in the store.
log_event(st, content, wall) ==
    LET id == EventId_add_one(st.latest_event_id)
        event == [id |-> id, time |-> now(st, wall), content |-> content]
    IN  [st EXCEPT !.latest_event_id = id,
                   !.tree.events = {e \in @ : e.id # id} \cup {event}]

\* The end of put, disable and transfer: commit unless in a blockchain.
commit_unless_blockchain(st, steps) ==
    IF ~st.blockchain
    THEN Done(persistent_store_commit(st), Ok(<<>>), steps \o <<"commit">>)
    ELSE Done(st, Ok(<<>>), steps)

KvStoreMetadata(owner, disabled) == [owner |-> owner, disabled |-> disabled]

\* Either<bool, Reason>, the type of KvStoreMetadata.disabled.
Left(b) == [either |-> "Left", bool |-> b]
Right(reason) == [either |-> "Right", reason |-> reason]

\* A put that leaves its event out.
kvstore_put_silent(st, meta, key, value, wall, apply_fails) ==
    IF apply_fails THEN Done(st, Err("unknown"), <<>>) ELSE
    commit_unless_blockchain(
        [st EXCEPT !.tree = apply_under(apply_under(@, KVSTORE_ACL_ROOT, key, Metadata_to_vec(meta)),
                                        KVSTORE_ROOT, key, value)],
        <<"apply">>)

kvstore_put(st, meta, key, value, wall, apply_fails) ==
    IF apply_fails THEN Done(st, Err("unknown"), <<>>) ELSE
    LET applied == [st EXCEPT !.tree = apply_under(apply_under(@, KVSTORE_ACL_ROOT, key, Metadata_to_vec(meta)),
                                                   KVSTORE_ROOT, key, value)]
        logged == log_event(applied, [kind |-> "KvStorePut", key |-> key,
                                      value |-> value, owner |-> meta.owner], wall)
    IN  commit_unless_blockchain(logged, <<"apply", "log_event">>)

kvstore_disable(st, meta, key, wall) ==
    LET applied == [st EXCEPT !.tree = apply_under(@, KVSTORE_ACL_ROOT, key, Metadata_to_vec(meta))]
        reason == IF meta.disabled # None /\ meta.disabled[1].either = "Right"
                  THEN Some(meta.disabled[1].reason) ELSE None
        logged == log_event(applied, [kind |-> "KvStoreDisable", key |-> key,
                                      reason |-> reason], wall)
    IN  commit_unless_blockchain(logged, <<"apply", "log_event">>)

kvstore_transfer(st, key, previous_owner, meta, wall) ==
    LET new_owner == meta.owner
        applied == [st EXCEPT !.tree = apply_under(@, KVSTORE_ACL_ROOT, key, Metadata_to_vec(meta))]
        logged == log_event(applied, [kind |-> "KvStoreTransfer", key |-> key,
                                      owner |-> previous_owner,
                                      new_owner |-> new_owner], wall)
    IN  commit_unless_blockchain(logged, <<"apply", "log_event">>)

\* new_subresource_id: the address of the id before, and the next id put.
new_subresource_id(st, apply_fails) ==
    LET current_id == st.next_subresource
        next == [st EXCEPT !.next_subresource = current_id + 1]
    IN  IF apply_fails THEN Done(next, Err("unknown"), <<>>) ELSE
        Done([next EXCEPT !.tree = apply(@, "/config/subresource_id",
                                            u32_to_be_bytes(next.next_subresource))],
             Ok(<<st.root_identity, current_id>>), <<"apply">>)

\* A commit that leaves the height where it is.
kvstore_commit_same_height(st) ==
    LET written == persistent_store_commit(
                       [st EXCEPT !.tree = apply(@, "/latest_event_id",
                                                 EventId_encode(st.latest_event_id))])
        hash == root_hash(written.disk)
    IN  Done([written EXCEPT !.current_hash = Some(hash)],
             AbciCommitInfo(Zero64, hash), <<"apply", "commit">>)

\* commit: the height, the latest event id, the commit and the root hash.
kvstore_commit(st) ==
    LET higher == inc_height(st).st
        written == persistent_store_commit(
                       [higher EXCEPT !.tree = apply(@, "/latest_event_id",
                                                     EventId_encode(higher.latest_event_id))])
        hash == root_hash(written.disk)
    IN  Done([written EXCEPT !.current_hash = Some(hash)],
             AbciCommitInfo(Zero64, hash), <<"apply", "apply", "commit">>)

\* hash: the hash of the last commit, or else the root hash.
kvstore_hash(st) ==
    IF st.current_hash = None THEN root_hash(st.tree) ELSE st.current_hash[1]

(***************************************************************************)
(* LedgerStorage (many-ledger/src/storage/abci.rs): its height, its events *)
(* and its commit.                                                         *)
(***************************************************************************)
HEIGHT_EVENTID_SHIFT == 32

\* u64::to_be_bytes, for the numbers below 2^24.
to_be_bytes(n) ==
    <<0, 0, 0, 0, 0, n \div 65536, (n \div 256) % 256, n % 256>>

\* v << bits on a u64 in bytes, for whole bytes: the bits pushed out are lost.
shl(v, bits) ==
    LET k == bits \div 8 IN
    [i \in 1 .. 8 |-> IF i + k <= 8 THEN v[i + k] ELSE 0]

\* impl From<u64> for EventId: the eight bytes of the number.
EventId_from_u64(v) == v

\* The ledger's store before any block.
LedgerStorage_new ==
    LET seeded == [height |-> None, migrated |-> None] IN
    [tree |-> seeded, disk |-> seeded, latest_tid |-> InitialEventId,
     current_hash |-> None]

ledger_get_height(st) == IF st.tree.height = None THEN 0 ELSE st.tree.height[1]

\* inc_height: the height before, and the store with the next height put.
ledger_inc_height(st) ==
    LET current_height == ledger_get_height(st) IN
    [st |-> [st EXCEPT !.tree.height = Some(current_height + 1)],
     val |-> current_height]

\* log_event: the next id is the id of the event.
ledger_log_event(st) == [st EXCEPT !.latest_tid = EventId_add_one(@)]

commit_storage(st) == [st EXCEPT !.disk = st.tree]

\* MigrationSet::update_at_height on the ledger's store: the migrations of
\* the height write their attributes.
ledger_update_at_height(st, height) == [st EXCEPT !.tree.migrated = Some(height)]

\* The steps of commit that return an error, and "none" for a commit that
\* goes through.
CommitFailures ==
    {"none", "inc_height", "commit_storage", "update_at_height", "commit_storage again"}

\* What commit returns for an error: no height to retain, and the text of
\* the error for a hash.
CommitError(error) == AbciCommitInfo(Zero64, <<"error", error>>)

\* A commit that hands the migrations the height it is leaving.
ledger_commit_at_height(st, fails) ==
    IF fails = "inc_height" THEN Done(st, CommitError(fails), <<>>) ELSE
    LET higher == ledger_inc_height(st)
        height == higher.val
    IN
    IF fails = "commit_storage" THEN Done(higher.st, CommitError(fails), <<>>) ELSE
    LET first == commit_storage(higher.st) IN
    IF fails = "update_at_height"
    THEN Done(first, CommitError(fails), <<"commit", "update_at_height">>) ELSE
    LET migrated == ledger_update_at_height(first, height) IN
    IF fails = "commit_storage again"
    THEN Done(migrated, CommitError(fails), <<"commit", "update_at_height">>) ELSE
    LET written == commit_storage(migrated)
        hash == root_hash(written.tree)
    IN  Done([written EXCEPT
                 !.current_hash = Some(hash),
                 !.latest_tid = EventId_from_u64(shl(to_be_bytes(height),
                                                     HEIGHT_EVENTID_SHIFT))],
             AbciCommitInfo(Zero64, hash), <<"commit", "update_at_height", "commit">>)

\* commit: the next height, the store committed, the migrations of the
\* height, the store committed again, the hash, and the latest id set from
\* the height; the first error ends it.  The steps are the calls made on the
\* persistent store and on the migrations.
ledger_commit(st, fails) ==
    IF fails = "inc_height" THEN Done(st, CommitError(fails), <<>>) ELSE
    LET higher == ledger_inc_height(st)
        height == higher.val
    IN
    IF fails = "commit_storage" THEN Done(higher.st, CommitError(fails), <<>>) ELSE
    LET first == commit_storage(higher.st) IN
    IF fails = "update_at_height"
    THEN Done(first, CommitError(fails), <<"commit", "update_at_height">>) ELSE
    LET migrated == ledger_update_at_height(first, height + 1) IN
    IF fails = "commit_storage again"
    THEN Done(migrated, CommitError(fails), <<"commit", "update_at_height">>) ELSE
    LET written == commit_storage(migrated)
        hash == root_hash(written.tree)
    IN  Done([written EXCEPT
                 !.current_hash = Some(hash),
                 !.latest_tid = EventId_from_u64(shl(to_be_bytes(height),
                                                     HEIGHT_EVENTID_SHIFT))],
             AbciCommitInfo(Zero64, hash), <<"commit", "update_at_height", "commit">>)

(***************************************************************************)
(* The tokens of the ledger (many-ledger/src/storage/ledger_mintburn.rs    *)
(* and ledger.rs).  A TokenAmount is a natural number without a width.     *)
(* The store keeps a balance under key_for_account_balance(address,        *)
(* symbol) and the info of a token under key_for_symbol(symbol); a         *)
(* distribution is a map from addresses to amounts, read in the order of   *)
(* the addresses.                                                          *)
(***************************************************************************)
Symbols == {"MFX", "OTH"}

\* The addresses in their order; the anonymous address comes first.
AddressOrder == <<Anonymous, "a0", "a1">>

Holders == { AddressOrder[i] : i \in DOMAIN AddressOrder }

TokenInfoSupply(total, circulating, maximum) ==
    [total |-> total, circulating |-> circulating, maximum |-> maximum]

\* The store of a ledger with its symbols, no balance and nothing minted.
LedgerStorage_with_tokens(blockchain) ==
    LET seeded == [height |-> None, migrated |-> None,
                   balances |-> [k \in Holders \X Symbols |-> None],
                   tokens |-> [s \in Symbols |-> TokenInfoSupply(0, 0, Some(MaxSupply))]]
    IN  [tree |-> seeded, disk |-> seeded, latest_tid |-> InitialEventId,
         current_hash |-> None, blockchain |-> blockchain]

get_symbols(st) == DOMAIN st.tree.tokens

\* get_all_balances: the balances of the identity that are in the store, by
\* symbol; the anonymous address has none.
get_all_balances(st, identity) ==
    IF identity = Anonymous THEN <<>>
    ELSE LET held == { s \in get_symbols(st) : st.tree.balances[<<identity, s>>] # None }
         IN  [s \in held |-> st.tree.balances[<<identity, s>>][1]]

\* get_multiple_balances: those of the symbols asked for, or all for none.
get_multiple_balances(st, identity, symbols) ==
    LET balances == get_all_balances(st, identity) IN
    IF symbols = {} THEN balances
    ELSE [s \in DOMAIN balances \cap symbols |-> balances[s]]

\* info_token: the supply of the token.
info_token(st, symbol) ==
    IF symbol \in DOMAIN st.tree.tokens THEN Ok(st.tree.tokens[symbol])
    ELSE Err(<<"symbol_not_found", symbol>>)

\* One entry of a batch: a balance or the info of a token.
BalancePut(address, symbol, amount) ==
    [key |-> "balance", address |-> address, symbol |-> symbol, value |-> amount]

TokenPut(symbol, token_info) ==
    [key |-> "token", address |-> Anonymous, symbol |-> symbol, value |-> token_info]

\* persistent_store.apply of a batch of puts: every key has one entry, so
\* the order the batch was sorted in does not show in the store.
RECURSIVE apply_batch(_, _)
apply_batch(tree, batch) ==
    IF batch = <<>> THEN tree
    ELSE LET e == Head(batch) IN
         apply_batch(IF e.key = "balance"
                     THEN [tree EXCEPT !.balances[<<e.address, e.symbol>>] = Some(e.value)]
                     ELSE [tree EXCEPT !.tokens[e.symbol] = e.value],
                     Tail(batch))

\* maybe_commit: the store is committed unless the ledger runs in a
\* blockchain.
maybe_commit(st) == IF st.blockchain THEN st ELSE commit_storage(st)

\* The steps of mint_token and burn_token that may return a storage error.
TokenFailures == {"none", "apply", "maybe_commit"}

\* The addresses of a distribution in their order.
addresses_of(distribution) ==
    SelectSeq(AddressOrder, LAMBDA a : a \in DOMAIN distribution)

\* The loop of mint_token over the distribution.
RECURSIVE mint_entries(_, _, _, _, _, _)
mint_entries(st, symbol, distribution, addresses, batch, circulating) ==
    IF addresses = <<>> THEN Ok([batch |-> batch, circulating |-> circulating])
    ELSE LET address == Head(addresses)
             amount == distribution[address]
             current_supply == info_token(st, symbol).val
             sum == circulating + amount
         IN  IF amount = 0 THEN Err(<<"unable_to_distribute_zero", address>>)
             ELSE IF current_supply.maximum # None
                     /\ current_supply.circulating + sum > current_supply.maximum[1]
             THEN Err(<<"over_maximum_supply", symbol>>)
             ELSE LET balances == get_multiple_balances(st, address, {symbol})
                      new_balance == IF symbol \in DOMAIN balances
                                     THEN balances[symbol] + amount ELSE amount
                  IN  mint_entries(st, symbol, distribution, Tail(addresses),
                                   Append(batch, BalancePut(address, symbol, new_balance)),
                                   sum)

mint_token(st, symbol, distribution, fails) ==
    IF ~info_token(st, symbol).ok THEN Done(st, info_token(st, symbol), <<>>) ELSE
    LET looped == mint_entries(st, symbol, distribution, addresses_of(distribution), <<>>, 0) IN
    IF ~looped.ok THEN Done(st, looped, <<>>) ELSE
    LET token_info == info_token(st, symbol).val
        minted == [token_info EXCEPT !.circulating = @ + looped.val.circulating,
                               !.total = @ + looped.val.circulating]
        batch == Append(looped.val.batch, TokenPut(symbol, minted))
    IN  IF fails = "apply" THEN Done(st, Err(<<"storage_apply_failed">>), <<>>) ELSE
        LET applied == [st EXCEPT !.tree = apply_batch(@, batch)] IN
        IF fails = "maybe_commit"
        THEN Done(applied, Err(<<"storage_commit_failed">>), <<"apply">>)
        ELSE Done(maybe_commit(applied), Ok(<<>>),
                  IF st.blockchain THEN <<"apply">> ELSE <<"apply", "commit">>)

\* A loop of burn_token that stages the balance of every address it gets to.
RECURSIVE burn_entries_staging(_, _, _, _, _, _)
burn_entries_staging(st, symbol, distribution, addresses, batch, circulating) ==
    IF addresses = <<>> THEN Ok([st |-> st, batch |-> batch, circulating |-> circulating])
    ELSE LET address == Head(addresses)
             amount == distribution[address]
             balances == get_multiple_balances(st, address, {symbol})
         IN  IF amount = 0
             THEN [ok |-> FALSE, val |-> <<"unable_to_distribute_zero", address>>, st |-> st]
             ELSE IF symbol \notin DOMAIN balances
             THEN [ok |-> FALSE, val |-> <<"missing_funds", symbol, amount, 0>>, st |-> st]
             ELSE IF balances[symbol] < amount
             THEN [ok |-> FALSE, val |-> <<"missing_funds", symbol, amount, balances[symbol]>>,
                   st |-> st]
             ELSE LET put == BalancePut(address, symbol, balances[symbol] - amount) IN
                  burn_entries_staging([st EXCEPT !.tree = apply_batch(@, <<put>>)],
                                       symbol, distribution, Tail(addresses),
                                       batch, circulating + amount)

\* The loop of burn_token over the distribution: the first address with no
\* amount or with less than its amount ends it with the error; the batch is
\* a local of burn_token, and the store is only read.
RECURSIVE burn_entries(_, _, _, _, _, _)
burn_entries(st, symbol, distribution, addresses, batch, circulating) ==
    IF addresses = <<>> THEN Ok([st |-> st, batch |-> batch, circulating |-> circulating])
    ELSE LET address == Head(addresses)
             amount == distribution[address]
             balances == get_multiple_balances(st, address, {symbol})
         IN  IF amount = 0
             THEN [ok |-> FALSE, val |-> <<"unable_to_distribute_zero", address>>, st |-> st]
             ELSE IF symbol \notin DOMAIN balances
             THEN [ok |-> FALSE, val |-> <<"missing_funds", symbol, amount, 0>>, st |-> st]
             ELSE IF balances[symbol] < amount
             THEN [ok |-> FALSE, val |-> <<"missing_funds", symbol, amount, balances[symbol]>>,
                   st |-> st]
             ELSE burn_entries(st, symbol, distribution, Tail(addresses),
                               Append(batch, BalancePut(address, symbol,
                                                        balances[symbol] - amount)),
                               circulating + amount)

\* TokenAmount -=: the difference, or a panic below zero.
checked_sub(a, b) == IF a >= b THEN Ok(a - b) ELSE Err(<<"panic">>)

burn_token(st, symbol, distribution, fails) ==
    LET looped == burn_entries(st, symbol, distribution, addresses_of(distribution), <<>>, 0) IN
    IF ~looped.ok THEN Done(looped.st, Err(looped.val), <<>>) ELSE
    LET read == info_token(looped.val.st, symbol) IN
    IF ~read.ok THEN Done(looped.val.st, read, <<>>) ELSE
    LET token_info == read.val
        circulating == checked_sub(token_info.circulating, looped.val.circulating)
        total == checked_sub(token_info.total, looped.val.circulating)
    IN  IF ~circulating.ok \/ ~total.ok THEN Done(looped.val.st, Err(<<"panic">>), <<>>) ELSE
        LET burnt == [token_info EXCEPT !.circulating = circulating.val, !.total = total.val]
            batch == Append(looped.val.batch, TokenPut(symbol, burnt))
        IN  IF fails = "apply"
            THEN Done(looped.val.st, Err(<<"storage_apply_failed">>), <<>>) ELSE
            LET applied == [looped.val.st EXCEPT !.tree = apply_batch(@, batch)] IN
            IF fails = "maybe_commit"
            THEN Done(applied, Err(<<"storage_commit_failed">>), <<"apply">>)
            ELSE Done(maybe_commit(applied), Ok(<<>>),
                      IF st.blockchain THEN <<"apply">> ELSE <<"apply", "commit">>)

(***************************************************************************)
(* Migrations (many-migration/src/lib.rs).  The storage the functions of   *)
(* the registry work on counts their runs, by the name of the migration.   *)
(***************************************************************************)
Enabled == "Enabled"
Disabled == "Disabled"

\* Metadata: the block height; the issue and the extras are not read.
Metadata(block_height) == [block_height |-> block_height]

\* Metadata::default
Metadata_default == Metadata(1)

RegularMigration(name) == [type |-> "Regular", name |-> name]
HotfixMigration(name) == [type |-> "Hotfix", name |-> name]

\* The registry: a migration that initializes and updates, and a hotfix.
Registry == <<RegularMigration("regular"), HotfixMigration("hotfix")>>

RegistryNames == { Registry[i].name : i \in DOMAIN Registry }

\* No function of the registry has run: how often each has, and the calls
\* one after the other.
NoRuns == [initialized |-> [n \in RegistryNames |-> 0],
           updated |-> [n \in RegistryNames |-> 0],
           calls |-> <<>>]

\* The functions of the registry.
initialize_fn(inner, storage) ==
    Ok([storage EXCEPT !.initialized[inner.name] = @ + 1,
                       !.calls = Append(@, <<"initialize", inner.name>>)])

update_fn(inner, storage) ==
    Ok([storage EXCEPT !.updated[inner.name] = @ + 1,
                       !.calls = Append(@, <<"update", inner.name>>)])

BrokenBytes == "broken"
FixedBytes == "fixed"

hotfix_fn(b) == IF b = BrokenBytes THEN Some(FixedBytes) ELSE None

\* Migration::new
Migration_new(migration, metadata, status) ==
    [migration |-> migration, metadata |-> metadata, status |-> status]

\* InnerMigration::initialize
InnerMigration_initialize(inner, storage) ==
    IF inner.type = "Regular" THEN initialize_fn(inner, storage) ELSE Ok(storage)

\* InnerMigration::update
InnerMigration_update(inner, storage) ==
    IF inner.type = "Regular" THEN update_fn(inner, storage) ELSE Ok(storage)

\* An InnerMigration::hotfix that does not look at the type.
InnerMigration_hotfix_any(inner, b) == hotfix_fn(b)

\* InnerMigration::hotfix
InnerMigration_hotfix(inner, b) ==
    IF inner.type = "Hotfix" THEN hotfix_fn(b) ELSE None

\* A Migration::initialize that runs from the block height on.
Migration_initialize_from(m, storage, h) ==
    IF m.status = Enabled /\ m.metadata.block_height <= h
    THEN InnerMigration_initialize(m.migration, storage)
    ELSE Ok(storage)

\* Migration::initialize
Migration_initialize(m, storage, h) ==
    IF m.status = Enabled /\ m.metadata.block_height = h
    THEN InnerMigration_initialize(m.migration, storage)
    ELSE Ok(storage)

\* Migration::update
Migration_update(m, storage, h) ==
    IF m.status = Enabled /\ m.metadata.block_height >= h
    THEN InnerMigration_update(m.migration, storage)
    ELSE Ok(storage)

\* Migration::hotfix
Migration_hotfix(m, b, h) ==
    IF m.status = Enabled /\ m.metadata.block_height = h
    THEN InnerMigration_hotfix(m.migration, b)
    ELSE None

\* One entry of a config: the name of a migration and its metadata.
IO(type, block_height) == [type |-> type, metadata |-> Metadata(block_height)]

\* The migration of the registry with the name, if any.
RECURSIVE registry_get(_, _)
registry_get(registry, name) ==
    IF registry = <<>> THEN None
    ELSE IF registry[Len(registry)].name = name THEN Some(registry[Len(registry)])
    ELSE registry_get(SubSeq(registry, 1, Len(registry) - 1), name)

\* The entries of the config that have gone into the map, the first unknown
\* name ending it with its error.
RECURSIVE collect_migrations(_, _, _)
collect_migrations(registry, config, map) ==
    IF config = <<>> THEN Ok(map)
    ELSE LET io == Head(config)
             found == registry_get(registry, io.type)
         IN  IF found = None
             THEN Err(<<"Unsupported migration type", io.type>>)
             ELSE collect_migrations(
                      registry, Tail(config),
                      (io.type :> Migration_new(found[1], io.metadata, Enabled)) @@ map)

\* A load_migrations that leaves the unknown names out.
load_migrations_lenient(registry, config) ==
    collect_migrations(registry,
                       SelectSeq(config, LAMBDA io : registry_get(registry, io.type) # None),
                       NoEntries)

\* load_migrations, from the entries of the decoded config.
load_migrations(registry, config) == collect_migrations(registry, config, NoEntries)

\* load_enable_all_regular_migrations
load_enable_all_regular_migrations(registry) ==
    [name \in { registry[i].name : i \in DOMAIN registry } |->
        LET m == registry_get(registry, name)[1] IN
        Migration_new(m, Metadata_default,
                      IF m.type = "Regular" THEN Enabled ELSE Disabled)]

\* The names of a map of migrations, in the order of the map.
NameOrder == <<"hotfix", "regular">>

names_of(migrations) == SelectSeq(NameOrder, LAMBDA n : n \in DOMAIN migrations)

\* The migrations invoked with a height, one after the other: initialize,
\* then update.  What each call returned is kept by name.
RECURSIVE invoke_migrations(_, _, _, _, _)
invoke_migrations(migrations, names, storage, h, results) ==
    IF names = <<>> THEN [storage |-> storage, results |-> results]
    ELSE LET m == migrations[Head(names)]
             initialized == Migration_initialize(m, storage, h)
             updated == Migration_update(m, initialized.val, h)
         IN  invoke_migrations(
                 migrations, Tail(names), updated.val, h,
                 (Head(names) :> [initialize |-> initialized.ok, update |-> updated.ok])
                     @@ results)

\* The hotfixes consulted with some bytes at a height: what each returned.
consult_hotfixes(migrations, b, h) ==
    [n \in DOMAIN migrations |-> Migration_hotfix(migrations[n], b, h)]

(***************************************************************************)
(* EventInfo and AccountMultisigTransaction (many-modules/src/             *)
(* _4_events.rs).  An event is [ekind, fields]: the fields of its variant  *)
(* in the order they are declared.  A transaction is [method, params].     *)
(* The codec is modelled on CBOR data items: what the decoder reads one    *)
(* after the other.                                                        *)
(***************************************************************************)
\* CBOR data items.  A map has its entries in the order they are written;
\* its length is the number of its entries.
Uint(n) == [cbor |-> "uint", n |-> n]
Null == [cbor |-> "null"]
Text(t) == [cbor |-> "text", text |-> t]
Tagged(a) == [cbor |-> "address", identity |-> a]
Array(items) == [cbor |-> "array", items |-> items]
Entry(key, value) == [key |-> key, value |-> value]
CborMap(entries) == [cbor |-> "map", entries |-> entries]

\* One declared field: `idx | name: type [tag]`.
Declared(idx, name, type, tag) == [idx |-> idx, name |-> name, type |-> type, tag |-> tag]

\* define_event!: the index of every kind and the fields of its variant.
\* The types are Address, Option<Address>, Box<AccountMultisigTransaction>,
\* and any other type, required ("Value") or optional ("OptionValue").
EventKinds ==
    [Send |-> [index |-> <<6, 0>>, args |-> TRUE, fields |-> <<
        Declared(1, "from", "Address", "id"),
        Declared(2, "to", "Address", "id"),
        Declared(3, "symbol", "Address", "symbol"),
        Declared(4, "amount", "Value", "")>>],
     AccountCreate |-> [index |-> <<9, 0>>, args |-> TRUE, fields |-> <<
        Declared(1, "account", "Address", "id"),
        Declared(2, "description", "OptionValue", ""),
        Declared(3, "roles", "Value", ""),
        Declared(4, "features", "Value", "")>>],
     AccountSetDescription |-> [index |-> <<9, 1>>, args |-> TRUE, fields |-> <<
        Declared(1, "account", "Address", "id"),
        Declared(2, "description", "Value", "")>>],
     AccountAddRoles |-> [index |-> <<9, 2>>, args |-> TRUE, fields |-> <<
        Declared(1, "account", "Address", "id"),
        Declared(2, "roles", "Value", "")>>],
     AccountRemoveRoles |-> [index |-> <<9, 3>>, args |-> TRUE, fields |-> <<
        Declared(1, "account", "Address", "id"),
        Declared(2, "roles", "Value", "")>>],
     AccountDisable |-> [index |-> <<9, 4>>, args |-> TRUE, fields |-> <<
        Declared(1, "account", "Address", "id")>>],
     AccountAddFeatures |-> [index |-> <<9, 5>>, args |-> TRUE, fields |-> <<
        Declared(1, "account", "Address", "id"),
        Declared(2, "roles", "Value", ""),
        Declared(3, "features", "Value", "")>>],
     AccountMultisigSubmit |-> [index |-> <<9, 1, 0>>, args |-> TRUE, fields |-> <<
        Declared(1, "submitter", "Address", "id"),
        Declared(2, "account", "Address", "id"),
        Declared(3, "memo", "OptionValue", ""),
        Declared(4, "transaction", "Transaction", "inner"),
        Declared(5, "token", "OptionValue", ""),
        Declared(6, "threshold", "Value", ""),
        Declared(7, "timeout", "Value", ""),
        Declared(8, "execute_automatically", "Value", ""),
        Declared(9, "data", "OptionValue", "")>>],
     AccountMultisigApprove |-> [index |-> <<9, 1, 1>>, args |-> TRUE, fields |-> <<
        Declared(1, "account", "Address", "id"),
        Declared(2, "token", "Value", ""),
        Declared(3, "approver", "Address", "id")>>],
     AccountMultisigRevoke |-> [index |-> <<9, 1, 2>>, args |-> TRUE, fields |-> <<
        Declared(1, "account", "Address", "id"),
        Declared(2, "token", "Value", ""),
        Declared(3, "revoker", "Address", "id")>>],
     AccountMultisigExecute |-> [index |-> <<9, 1, 3>>, args |-> TRUE, fields |-> <<
        Declared(1, "account", "Address", "id"),
        Declared(2, "token", "Value", ""),
        Declared(3, "executer", "OptionAddress", "id_non_null"),
        Declared(4, "response", "Value", "")>>],
     AccountMultisigWithdraw |-> [index |-> <<9, 1, 4>>, args |-> TRUE, fields |-> <<
        Declared(1, "account", "Address", "id"),
        Declared(2, "token", "Value", ""),
        Declared(3, "withdrawer", "Address", "id")>>],
     AccountMultisigSetDefaults |-> [index |-> <<9, 1, 5>>, args |-> TRUE, fields |-> <<
        Declared(1, "submitter", "Address", "id"),
        Declared(2, "account", "Address", "id"),
        Declared(3, "threshold", "OptionValue", ""),
        Declared(4, "timeout_in_secs", "OptionValue", ""),
        Declared(5, "execute_automatically", "OptionValue", "")>>],
     AccountMultisigExpired |-> [index |-> <<9, 1, 6>>, args |-> FALSE, fields |-> <<
        Declared(1, "account", "Address", "id"),
        Declared(2, "token", "Value", ""),
        Declared(3, "time", "Value", "")>>]]

EventKindNames == DOMAIN EventKinds

\* Encode for EventKind: the attribute related index of the kind.
EventKind_encode(kind) == Array(EventKinds[kind].index)

\* Decode for EventKind: the kind of the index, if it is one.
EventKind_decode(item) ==
    IF item.cbor # "array" THEN Err(<<"unexpected type">>)
    ELSE IF \E k \in EventKindNames : EventKinds[k].index = item.items
         THEN Ok(CHOOSE k \in EventKindNames : EventKinds[k].index = item.items)
         ELSE Err(<<"Invalid attribute index">>)

EventInfo(ekind, fields) == [ekind |-> ekind, fields |-> fields]
Transaction(method, params) == [method |-> method, params |-> params]

\* The codecs of the types of the fields.
Address_encode(a) == Tagged(a)

Address_decode(item) ==
    IF item.cbor = "address" THEN Ok(item.identity) ELSE Err(<<"unexpected type">>)

Value_encode(v) == Text(v)

Value_decode(item) ==
    IF item.cbor = "text" THEN Ok(item.text) ELSE Err(<<"unexpected type">>)

\* Option<T>: None is null.
Option_encode(encode_some(_), v) == IF v = None THEN Null ELSE encode_some(v[1])

Option_decode(decode_some(_), item) ==
    IF item = Null THEN Ok(None)
    ELSE LET v == decode_some(item) IN IF v.ok THEN Ok(Some(v.val)) ELSE v

\* The keys of the entries of a map, in their order.
keys_of(item) == [i \in DOMAIN item.entries |-> item.entries[i].key]

RECURSIVE Transaction_encode(_)
RECURSIVE Transaction_decode(_)

\* The arguments of the methods: those of ledger.send and of
\* account.multisigSubmitTransaction, which holds a transaction again, are
\* maps of their fields; those of the other methods are one value.
SendArgs(from, to, symbol, amount) ==
    [from |-> from, to |-> to, symbol |-> symbol, amount |-> amount]

SubmitTransactionArgs(account, memo, transaction) ==
    [account |-> account, memo |-> memo, transaction |-> transaction]

Args_encode(method, params) ==
    CASE method = "Send" ->
           CborMap(<<Entry(0, Option_encode(Address_encode, params.from)),
                     Entry(1, Address_encode(params.to)),
                     Entry(2, Value_encode(params.amount)),
                     Entry(3, Address_encode(params.symbol))>>)
      [] method = "AccountMultisigSubmit" ->
           CborMap(<<Entry(0, Address_encode(params.account)),
                     Entry(1, Option_encode(Value_encode, params.memo)),
                     Entry(2, Transaction_encode(params.transaction))>>)
      [] OTHER -> Value_encode(params)

Args_decode(method, item) ==
    CASE method = "Send" ->
           IF item.cbor # "map" \/ keys_of(item) # <<0, 1, 2, 3>>
           THEN Err(<<"unexpected type">>)
           ELSE LET from == Option_decode(Address_decode, item.entries[1].value)
                    to == Address_decode(item.entries[2].value)
                    amount == Value_decode(item.entries[3].value)
                    symbol == Address_decode(item.entries[4].value)
                IN  IF from.ok /\ to.ok /\ amount.ok /\ symbol.ok
                    THEN Ok(SendArgs(from.val, to.val, symbol.val, amount.val))
                    ELSE Err(<<"unexpected type">>)
      [] method = "AccountMultisigSubmit" ->
           IF item.cbor # "map" \/ keys_of(item) # <<0, 1, 2>>
           THEN Err(<<"unexpected type">>)
           ELSE LET account == Address_decode(item.entries[1].value)
                    memo == Option_decode(Value_decode, item.entries[2].value)
                    transaction == Transaction_decode(item.entries[3].value)
                IN  IF account.ok /\ memo.ok /\ transaction.ok
                    THEN Ok(SubmitTransactionArgs(account.val, memo.val, transaction.val))
                    ELSE IF account.ok /\ memo.ok THEN transaction
                    ELSE Err(<<"unexpected type">>)
      [] OTHER -> Value_decode(item)

\* Encode for AccountMultisigTransaction: a map of 2, the kind under 0 and
\* the arguments under 1.
Transaction_encode(t) ==
    CborMap(<<Entry(0, EventKind_encode(t.method)),
              Entry(1, Args_encode(t.method, t.params))>>)

\* Decode for AccountMultisigTransaction
Transaction_decode(item) ==
    IF item.cbor # "map" THEN Err(<<"Invalid event type.">>)
    ELSE IF Len(item.entries) # 2 THEN Err(<<"Transactions must have 2 values">>)
    ELSE IF item.entries[1].key # 0 THEN Err(<<"EventKind should be the first item.">>)
    ELSE LET kind == EventKind_decode(item.entries[1].value) IN
         IF ~kind.ok THEN kind
         ELSE IF ~EventKinds[kind.val].args THEN Err(<<"Unsupported transaction kind">>)
         ELSE IF item.entries[2].key # 1 THEN Err(<<"Invalid field index">>)
         ELSE LET params == Args_decode(kind.val, item.entries[2].value) IN
              IF params.ok THEN Ok(Transaction(kind.val, params.val)) ELSE params

\* The codec of a field of the type.
encode_field(type, v) ==
    CASE type = "Address" -> Address_encode(v)
      [] type = "OptionAddress" -> Option_encode(Address_encode, v)
      [] type = "Value" -> Value_encode(v)
      [] type = "OptionValue" -> Option_encode(Value_encode, v)
      [] type = "Transaction" -> Transaction_encode(v)

decode_field(type, item) ==
    CASE type = "Address" -> Address_decode(item)
      [] type = "OptionAddress" -> Option_decode(Address_decode, item)
      [] type = "Value" -> Value_decode(item)
      [] type = "OptionValue" -> Option_decode(Value_decode, item)
      [] type = "Transaction" -> Transaction_decode(item)

\* An encoder that leaves the absent optional fields out.
EventInfo_encode_sparse(e) ==
    LET decl == EventKinds[e.ekind].fields
        optional(i) == decl[i].type \in {"OptionAddress", "OptionValue"}
        present == SelectSeq([i \in DOMAIN decl |-> i],
                             LAMBDA i : ~(optional(i) /\ e.fields[i] = None))
    IN  CborMap(<<Entry(0, EventKind_encode(e.ekind))>>
                \o [j \in DOMAIN present |->
                       Entry(decl[present[j]].idx,
                             encode_field(decl[present[j]].type, e.fields[present[j]]))])

\* Encode for EventInfo: a map of one more than the fields, the kind under 0
\* and then every field under its index.
EventInfo_encode(e) ==
    LET decl == EventKinds[e.ekind].fields IN
    CborMap(<<Entry(0, EventKind_encode(e.ekind))>>
            \o [i \in DOMAIN decl |-> Entry(decl[i].idx, encode_field(decl[i].type, e.fields[i]))])

\* The position of the declared field with the index, 0 if there is none.
position_of(decl, idx) ==
    IF \E i \in DOMAIN decl : decl[i].idx = idx
    THEN CHOOSE i \in DOMAIN decl : decl[i].idx = idx
    ELSE 0

\* A loop that skips the entries whose index is not declared.
RECURSIVE decode_entries_lenient(_, _, _)
decode_entries_lenient(decl, entries, slots) ==
    IF entries = <<>> THEN Ok(slots)
    ELSE LET at == position_of(decl, Head(entries).key) IN
         IF at = 0 THEN decode_entries_lenient(decl, Tail(entries), slots)
         ELSE LET v == decode_field(decl[at].type, Head(entries).value) IN
              IF ~v.ok THEN v
              ELSE decode_entries_lenient(decl, Tail(entries),
                                          [slots EXCEPT ![at] = Some(v.val)])

\* The loop over the entries after the first: each goes into the variable
\* of its field; an index that is not declared, or a value that does not
\* decode, ends it.
RECURSIVE decode_entries(_, _, _)
decode_entries(decl, entries, slots) ==
    IF entries = <<>> THEN Ok(slots)
    ELSE LET at == position_of(decl, Head(entries).key) IN
         IF at = 0 THEN Err(<<"unknown variant", Head(entries).key>>)
         ELSE LET v == decode_field(decl[at].type, Head(entries).value) IN
              IF ~v.ok THEN v
              ELSE decode_entries(decl, Tail(entries), [slots EXCEPT ![at] = Some(v.val)])

\* Decode for EventInfo
EventInfo_decode(item) ==
    IF item.cbor # "map" THEN Err(<<"Invalid event type.">>)
    ELSE IF item.entries = <<>> THEN Err(<<"end of input">>)
    ELSE IF item.entries[1].key # 0 THEN Err(<<"EventKind should be the first item.">>)
    ELSE LET kind == EventKind_decode(item.entries[1].value) IN
         IF ~kind.ok THEN kind
         ELSE LET decl == EventKinds[kind.val].fields
                  slots == decode_entries(decl, Tail(item.entries),
                                          [i \in DOMAIN decl |-> None])
              IN  IF ~slots.ok THEN slots
                  ELSE IF \E i \in DOMAIN decl : slots.val[i] = None
                  THEN LET i == CHOOSE i \in DOMAIN decl :
                                    /\ slots.val[i] = None
                                    /\ \A j \in DOMAIN decl : slots.val[j] = None => i <= j
                       IN  Err(<<"missing value", decl[i].idx>>)
                  ELSE Ok(EventInfo(kind.val, [i \in DOMAIN decl |-> slots.val[i][1]]))

\* AccountMultisigTransaction::addresses: the empty set.
Transaction_addresses(t) == {}

\* EventInfo::addresses: the fields tagged id, those tagged id_non_null
\* that are there, and the addresses of the fields tagged inner.
EventInfo_addresses(e) ==
    LET decl == EventKinds[e.ekind].fields IN
    { e.fields[i] : i \in { j \in DOMAIN decl : decl[j].tag = "id" } }
    \cup { e.fields[i][1] :
             i \in { j \in DOMAIN decl : decl[j].tag = "id_non_null" /\ e.fields[j] # None } }
    \cup UNION { Transaction_addresses(e.fields[i]) :
                   i \in { j \in DOMAIN decl : decl[j].tag = "inner" } }

\* EventInfo::is_about
EventInfo_is_about(e, id) == id \in EventInfo_addresses(e)

\* The inputs: the identities of the tests, the values of the fields of
\* each type, the transactions nested up to MaxTxDepth deep, and every
\* event these make.
Identities == {"i0", "i1"}
SubIdentities == {"i01", "i11"}

SendTransactions ==
    { Transaction("Send", SendArgs(from, "i11", "symbol", "amount")) :
        from \in {None, Some("i01")} }

RECURSIVE Transactions(_)
Transactions(depth) ==
    IF depth = 0
    THEN SendTransactions \cup {Transaction("AccountDisable", "args")}
    ELSE Transactions(depth - 1)
         \cup { Transaction("AccountMultisigSubmit", SubmitTransactionArgs("i1", memo, t)) :
                  memo \in {None}, t \in Transactions(depth - 1) }

FieldValues(type) ==
    CASE type = "Address" -> Identities
      [] type = "OptionAddress" -> {None, Some("i0")}
      [] type = "Value" -> {"value"}
      [] type = "OptionValue" -> {None, Some("value")}
      [] type = "Transaction" -> Transactions(MaxTxDepth)

\* The values the first n fields can have together.
RECURSIVE all_fields(_, _)
all_fields(decl, n) ==
    IF n = 0 THEN {<<>>}
    ELSE { Append(fields, v) :
             fields \in all_fields(decl, n - 1), v \in FieldValues(decl[n].type) }

EventsOf(ekind) ==
    { EventInfo(ekind, fields) :
        fields \in all_fields(EventKinds[ekind].fields, Len(EventKinds[ekind].fields)) }

\* What a sender can do to the entries of a map before it is decoded.
swap_entries(item, i, j) ==
    [item EXCEPT !.entries = [@ EXCEPT ![i] = item.entries[j], ![j] = item.entries[i]]]

drop_entry(item, i) ==
    [item EXCEPT !.entries = SubSeq(@, 1, i - 1) \o SubSeq(@, i + 1, Len(@))]

repeat_entry(item, i) == [item EXCEPT !.entries = Append(@, item.entries[i])]

rekey_entry(item, i, key) == [item EXCEPT !.entries[i].key = key]

add_entry(item, key) == [item EXCEPT !.entries = Append(@, Entry(key, Text("value")))]

unknown_kind(item) == [item EXCEPT !.entries[1].value = Array(<<9, 9>>)]

Tampered(item) ==
    LET n == Len(item.entries) IN
    { swap_entries(item, i, j) : i \in 1 .. n, j \in 2 .. n }
    \cup { drop_entry(item, i) : i \in 1 .. n }
    \cup { repeat_entry(item, i) : i \in 1 .. n }
    \cup { rekey_entry(item, i, key) : i \in 1 .. n, key \in 0 .. n }
    \cup { add_entry(item, key) : key \in 0 .. n }
    \cup { unknown_kind(item) }

\* The same done to the map of the transaction an event holds.
TamperedInner(item) ==
    UNION { { [item EXCEPT !.entries[i].value = inner] :
                inner \in Tampered(item.entries[i].value) } :
            i \in { j \in DOMAIN item.entries :
                      /\ item.entries[j].value.cbor = "map"
                      /\ item.entries[j].key = 4 } }

(***************************************************************************)
(* The state machine.                                                      *)
(***************************************************************************)
VARIABLES
    validator,         \* per replica: the validator behind AbciApp.cache
    cache,             \* per replica: the envelopes the validator has recorded
    cache_poisoned,    \* per replica: the lock of AbciApp.cache is poisoned
    migrations,        \* per replica: AbciApp.migrations
    block_time,        \* per replica: AbciApp.block_time
    delivered_ok,      \* per replica: the envelopes deliver_tx returned code 0 for
    deliveries,        \* the number of deliver_tx calls so far
    running,           \* the bridge processes are still there
    call,              \* the last ABCI call: its inputs and what each replica did
    store,             \* per replica: the KvStoreStorage of the backend
    operation,         \* the last operation on the stores and what each replica did
    ops,               \* the number of operations on the stores so far
    commits,           \* the number of commits of the stores so far
    ledger,            \* the LedgerStorage of a ledger
    blocks,            \* the ids of the events of its current block and of the one before
    ledger_call,       \* the last commit of the ledger: how it went, and the ledger before it
    engine,            \* the migrations loaded, the storage they work on and the height
    engine_call,       \* the last call on the migrations and what it returned
    codec,             \* an event, and what the codec and addresses made of it
    threads,           \* the handlers running at once on one bridge, step by step
    composed           \* a validator made of validators, and the last hook called on it

bridgeVars ==
    <<validator, cache, cache_poisoned, migrations, block_time, delivered_ok,
      deliveries, running, call>>

engineVars == <<engine, engine_call>>

codecVars == <<codec>>

threadVars == <<threads>>

serverVars == <<composed>>

backendVars ==
    <<store, operation, ops, commits, ledger, blocks, ledger_call, engineVars, codecVars>>

vars == <<bridgeVars, backendVars, threadVars, serverVars>>

\* The state of the bridge of replica r, as the handlers take it.
Bridge(r) ==
    [validator |-> validator[r], cache |-> cache[r], cache_poisoned |-> cache_poisoned[r],
     migrations |-> migrations[r], block_time |-> block_time[r]]

NoResponse == Response(0, <<>>, "")

\* op: the handler; tx, answer, stamp, fate: its inputs; was_poisoned: the
\* state of the cache lock it started in; resp: what it returned; reached:
\* the validator hooks check_tx got to; sent: the backend answered; calls:
\* the calls of message_executed.
\* header, failure, steps, rpc: for the other handlers, the header of
\* begin_block, what failed during the call, the steps of the handler in
\* order and its calls of the backend.
NoFailure == [update_fails |-> FALSE, call_fails |-> FALSE, to_vec_fails |-> FALSE]

Call(op, tx, answer, stamp, fate, resp, reached, sent, calls) ==
    [op |-> op, tx |-> tx, answer |-> answer, stamp |-> stamp, fate |-> fate,
     was_poisoned |-> cache_poisoned, resp |-> resp, reached |-> reached,
     sent |-> sent, calls |-> calls,
     header |-> None, failure |-> NoFailure, steps |-> Both(<<>>), rpc |-> Both(<<>>)]

\* The record of a call of begin_block, info, query, end_block or commit,
\* out being what the handler did on each replica.
OtherCall(op, tx, header, answer, failure, out) ==
    [Call(op, tx, answer, Both(NoStamp), NoFate, [r \in {1, 2} |-> out[r].resp],
          Both({}), Both(FALSE), Both(<<>>))
        EXCEPT !.header = header, !.failure = failure,
               !.steps = [r \in {1, 2} |-> out[r].steps],
               !.rpc = [r \in {1, 2} |-> out[r].rpc]]

\* AbciApp::create, then with_validator or not.
\* AbciApp::create, over the validator v.
\* No validator has been composed.
NoComposed ==
    [validator |-> [kind |-> "unit"], hook |-> "none", envelope |-> GarbageTx,
     before |-> [kind |-> "unit"], val |-> Ok(<<>>), calls |-> <<>>]

(***************************************************************************)
(* The handlers as threads of one bridge: AbciApp is Sync, tendermint calls *)
(* check_tx on its mempool connection while the consensus connection is in *)
(* begin_block or deliver_tx.                                              *)
(***************************************************************************)
Handlers == {"check_tx", "deliver_tx", "begin_block"}

\* The three RwLocks of AbciApp.
Locks == {"cache", "migrations", "block_time"}

\* The locks a handler takes with write(); it takes the others with read().
Writes ==
    { <<"deliver_tx", "cache">>, <<"begin_block", "migrations">>,
      <<"begin_block", "block_time">> }

\* The places of a handler where it waits for a lock, and the lock.
Wanted(pc) ==
    CASE pc \in {"cache.read", "cache.write"} -> Some("cache")
      [] pc \in {"migrations.read", "migrations.write"} -> Some("migrations")
      [] pc \in {"block_time.read", "block_time.write"} -> Some("block_time")
      [] OTHER -> None

\* The places of a handler where a call of the backend is in progress.
BackendCalls == {"send_envelope", "abci.beginBlock"}

\* No handler is running.  pc: where each handler is; held: the guards it
\* holds; executed: the envelopes the backend has executed; recorded: the
\* envelopes deliver_tx has left its cache block for; response, header: the
\* locals of deliver_tx and begin_block; check: when the check_tx under way
\* started and took the cache lock, and the hooks it reached; result: what
\* each handler returned last.
NoThreads ==
    [pc |-> [h \in Handlers |-> "idle"],
     held |-> [h \in Handlers |-> {}],
     executed |-> {},
     recorded |-> {},
     response |-> DefaultResponse,
     header |-> None,
     check |-> [after_executed |-> FALSE, after_recorded |-> FALSE,
                locked_after_recorded |-> FALSE, reached |-> {}],
     result |-> [h \in Handlers |-> NoResponse]]

Created(v) ==
    /\ validator = Both(v)
    /\ cache = Both({})
    /\ cache_poisoned = Both(FALSE)
    /\ migrations = Both([enabled |-> TRUE, block_height |-> LegacyHeight,
                          current_height |-> 0])
    /\ block_time = Both(None)
    /\ delivered_ok = Both({})
    /\ deliveries = 0
    /\ running = TRUE
    /\ call = Call("create", GarbageTx, NoAnswer, Both(NoStamp), NoFate, Both(NoResponse), Both({}),
                   Both(FALSE), Both(<<>>))
    /\ threads = NoThreads
    /\ composed = NoComposed

Root == "root"

\* What is recorded of a call on the ledger's store.
LedgerCall(name, fails, before, done, failures) ==
    [name |-> name, fails |-> fails, before |-> before, val |-> done.val,
     steps |-> done.steps, failures |-> failures]

\* What is recorded of an operation on the stores.
Op(name, before, done) ==
    [name |-> name, before |-> before,
     val |-> [r \in Replicas |-> done[r].val],
     steps |-> [r \in Replicas |-> done[r].steps]]

\* What is recorded of a call on the migrations.
EngineCall(name, h, before, results, bytes, hotfixed) ==
    [name |-> name, h |-> h, before |-> before, results |-> results,
     bytes |-> bytes, hotfixed |-> hotfixed]

\* The migrations as they were made, before any height.
Engine(source, config, loaded) ==
    [source |-> source, config |-> config, loaded |-> loaded,
     migrations |-> IF loaded.ok THEN loaded.val ELSE NoEntries,
     storage |-> NoRuns, height |-> 0]

\* An event made, before anything is done with it.
Made(e) ==
    [event |-> e, step |-> "made", wire |-> None, tampered |-> FALSE,
     decoded |-> None, again |-> None, about |-> None]

\* No event in hand.
NoEvent == codec = Made(EventInfo("AccountDisable", <<"i0">>))

\* The migrations made.
Loaded(e) ==
    /\ engine = e
    /\ engine_call = EngineCall("load", 0, NoRuns, NoEntries, None, NoEntries)
    /\ NoEvent

\* KvStoreStorage::new on every replica.
Opened(blockchain) ==
    LET fresh == Both(KvStoreStorage_new(NoAcl, Root, blockchain)) IN
    /\ store = fresh
    /\ operation = Op("new", fresh, [r \in Replicas |-> Done(fresh[r], Ok(<<>>), <<"apply", "apply", "commit">>)])
    /\ ops = 0
    /\ commits = 0
    /\ ledger = LedgerStorage_new
    /\ blocks = [current |-> <<>>, before |-> <<>>]
    /\ ledger_call = LedgerCall("new", "none", LedgerStorage_new,
                                Done(LedgerStorage_new, Ok(<<>>), <<"commit">>), 0)

\* The migrations of load_enable_all_regular_migrations.
AllRegular == Engine("all regular", <<>>, Ok(load_enable_all_regular_migrations(Registry)))

Init == (\E v \in {"unit", "cache"} : Created(v)) /\ Opened(TRUE) /\ Loaded(AllRegular)

InitStore ==
    Created("unit") /\ (\E blockchain \in BOOLEAN : Opened(blockchain)) /\ Loaded(AllRegular)

\* What may fail during a begin_block: update_at_height (when the header
\* gives a height), or the call of the backend.  The failures are listed for
\* the absent header and for the headers at the migration's height.
BeginBlockFailures(header) ==
    {NoFailure}
    \cup (IF header = None \/ (header # None /\ header[1].height = LegacyHeight)
          THEN {[NoFailure EXCEPT !.call_fails = TRUE]} ELSE {})
    \cup (IF header # None /\ header[1].height = LegacyHeight
          THEN {[NoFailure EXCEPT !.update_fails = TRUE]} ELSE {})

BeginBlock ==
    /\ running
    /\ \E header \in Headers : \E f \in BeginBlockFailures(header) :
          LET out == <<begin_block(Bridge(1), header, f.update_fails, f.call_fails),
                       begin_block(Bridge(2), header, f.update_fails, f.call_fails)>>
          IN
          /\ migrations' = [r \in {1, 2} |-> out[r].st.migrations]
          /\ block_time' = [r \in {1, 2} |-> out[r].st.block_time]
          /\ running' \in IF \E r \in Replicas : out[r].resp.kind = "panic"
                          THEN BOOLEAN ELSE {TRUE}
          /\ call' = OtherCall("begin_block", GarbageTx, header, NoAnswer, f, out)
    /\ UNCHANGED <<backendVars, threadVars, serverVars>>
    /\ UNCHANGED <<validator, cache, cache_poisoned, delivered_ok, deliveries>>

\* The environments of the delivery of tx.
DeliverEnvsOf(tx) ==
    IF from_slice(tx).ok THEN DeliverEnvs
    ELSE { [answer |-> NoAnswer, stamp |-> Both(NoStamp), fate |-> NoFate] }

\* What the two clocks may read during a call; a call that does not read
\* the clock gets one reading.
ClockReadings ==
    IF \E r \in Replicas : block_time[r] = None
    THEN [{1, 2} -> WallTimes]
    ELSE {Both(BaseTime)}

CheckTx ==
    /\ running
    /\ \E tx \in Txs, wall \in ClockReadings :
          LET out == <<check_tx(Bridge(1), tx, wall[1]), check_tx(Bridge(2), tx, wall[2])>> IN
          call' = Call("check_tx", tx, NoAnswer, Both(NoStamp), NoFate, [r \in {1, 2} |-> out[r].resp],
                       [r \in {1, 2} |-> out[r].reached], Both(FALSE), Both(<<>>))
    /\ UNCHANGED <<backendVars, threadVars, serverVars>>
    /\ UNCHANGED <<validator, cache, cache_poisoned, migrations, block_time,
                   delivered_ok, deliveries, running>>

DeliverTx ==
    /\ running
    /\ deliveries < MaxDelivers
    /\ \E tx \in DeliverTxs : \E env \in DeliverEnvsOf(tx) :
          LET out == <<deliver_tx(Bridge(1), tx, env.answer, env.stamp[1],
                                  env.fate.fails, env.fate.ser_fails),
                       deliver_tx(Bridge(2), tx, env.answer, env.stamp[2],
                                  env.fate.fails, env.fate.ser_fails)>>
          IN
          /\ cache' = [r \in {1, 2} |-> out[r].st.cache]
          /\ cache_poisoned' = [r \in {1, 2} |-> out[r].st.cache_poisoned]
          /\ delivered_ok' =
                [r \in {1, 2} |->
                    IF out[r].resp.kind = "response" /\ out[r].resp.code = DeliverSuccess
                    THEN delivered_ok[r] \cup {tx}
                    ELSE delivered_ok[r]]
          /\ running' \in IF \E r \in Replicas : out[r].resp.kind = "panic"
                          THEN BOOLEAN ELSE {TRUE}
          /\ call' = Call("deliver_tx", tx, env.answer, [r \in {1, 2} |-> env.stamp[r]], env.fate,
                          [r \in {1, 2} |-> out[r].resp], Both({}),
                          [r \in {1, 2} |-> out[r].sent],
                          [r \in {1, 2} |-> out[r].calls])
    /\ deliveries' = deliveries + 1
    /\ UNCHANGED <<backendVars, threadVars, serverVars>>
    /\ UNCHANGED <<validator, migrations, block_time>>

\* The answers of the backend to abci.info and to abci.commit.
InfoAnswers == {TransportFailed, Undecodable, AbciInfo(One64, "hash")}

RetainHeights == {Zero64, One64, MaxI64, MinNegative64}

CommitAnswers ==
    {TransportFailed, Undecodable} \cup { AbciCommitInfo(h, "hash") : h \in RetainHeights }

\* The environments of a query: the envelope, the answer and whether the
\* answer can be serialized.
QueryEnvs ==
    { [tx |-> GarbageTx, answer |-> NoAnswer, failure |-> NoFailure] }
    \cup { [tx |-> RequestTx(Some(BaseTime)), answer |-> a, failure |-> NoFailure] :
             a \in { x \in Answers : x.kind = "transport_error"
                                       \/ x = [kind |-> "response", data |-> <<"Ok", "value">>] } }
    \cup { [tx |-> RequestTx(Some(BaseTime)),
            answer |-> [kind |-> "response", data |-> <<"Ok", "value">>],
            failure |-> [NoFailure EXCEPT !.to_vec_fails = TRUE]] }

Info ==
    /\ running
    /\ \E answer \in InfoAnswers :
          LET out == <<info(Bridge(1), answer), info(Bridge(2), answer)>> IN
          call' = OtherCall("info", GarbageTx, None, answer, NoFailure, out)
    /\ UNCHANGED <<backendVars, threadVars, serverVars>>
    /\ UNCHANGED <<validator, cache, cache_poisoned, migrations, block_time,
                   delivered_ok, deliveries, running>>

Query ==
    /\ running
    /\ \E env \in QueryEnvs :
          LET out == <<query(Bridge(1), env.tx, env.answer, NoStamp, env.failure.to_vec_fails),
                       query(Bridge(2), env.tx, env.answer, NoStamp, env.failure.to_vec_fails)>>
          IN  call' = OtherCall("query", env.tx, None, env.answer, env.failure, out)
    /\ UNCHANGED <<backendVars, threadVars, serverVars>>
    /\ UNCHANGED <<validator, cache, cache_poisoned, migrations, block_time,
                   delivered_ok, deliveries, running>>

\* An end_block that forgets the time of the block.
EndBlockClearingTime ==
    /\ running
    /\ \E f \in {NoFailure, [NoFailure EXCEPT !.call_fails = TRUE]} :
          LET out == <<end_block(Bridge(1), f.call_fails), end_block(Bridge(2), f.call_fails)>>
          IN  call' = OtherCall("end_block", GarbageTx, None, NoAnswer, f, out)
    /\ block_time' = Both(None)
    /\ UNCHANGED <<backendVars, threadVars, serverVars>>
    /\ UNCHANGED <<validator, cache, cache_poisoned, migrations,
                   delivered_ok, deliveries, running>>

EndBlock ==
    /\ running
    /\ \E f \in {NoFailure, [NoFailure EXCEPT !.call_fails = TRUE]} :
          LET out == <<end_block(Bridge(1), f.call_fails), end_block(Bridge(2), f.call_fails)>>
          IN  call' = OtherCall("end_block", GarbageTx, None, NoAnswer, f, out)
    /\ UNCHANGED <<backendVars, threadVars, serverVars>>
    /\ UNCHANGED <<validator, cache, cache_poisoned, migrations, block_time,
                   delivered_ok, deliveries, running>>

Commit ==
    /\ running
    /\ \E answer \in CommitAnswers :
          LET out == <<commit(Bridge(1), answer), commit(Bridge(2), answer)>> IN
          /\ running' \in IF \E r \in Replicas : out[r].resp.kind = "panic"
                          THEN BOOLEAN ELSE {TRUE}
          /\ call' = OtherCall("commit", GarbageTx, None, answer, NoFailure, out)
    /\ UNCHANGED <<backendVars, threadVars, serverVars>>
    /\ UNCHANGED <<validator, cache, cache_poisoned, migrations, block_time,
                   delivered_ok, deliveries>>

\* One operation on the store of every replica: done[r] is what it did on r.
StoreOp(name, done) ==
    /\ ops < MaxOps
    /\ store' = [r \in Replicas |-> done[r].st]
    /\ operation' = Op(name, store, done)
    /\ ops' = ops + 1
    /\ commits' = IF name = "commit" THEN commits + 1 ELSE commits
    /\ UNCHANGED <<ledger, blocks, ledger_call, engineVars, codecVars>>
    /\ UNCHANGED <<bridgeVars, threadVars, serverVars>>

SetTime ==
    StoreOp("set_time",
            [r \in Replicas |-> Done(set_time(store[r], [secs |-> BaseTime]), Ok(<<>>), <<>>)])

Put ==
    \E key \in Keys, value \in Values, apply_fails \in BOOLEAN :
        StoreOp("put",
                [r \in Replicas |->
                    kvstore_put(store[r], KvStoreMetadata(Owner, None), key, value,
                                Clock(r), apply_fails)])

DisabledValues == {Some(Left(TRUE)), Some(Right("reason"))}

Disable ==
    \E key \in Keys, disabled \in DisabledValues :
        StoreOp("disable",
                [r \in Replicas |->
                    kvstore_disable(store[r], KvStoreMetadata(Owner, disabled), key, Clock(r))])

Transfer ==
    \E key \in Keys :
        StoreOp("transfer",
                [r \in Replicas |->
                    kvstore_transfer(store[r], key, Owner, KvStoreMetadata(NewOwner, None),
                                     Clock(r))])

NewSubresourceId ==
    \E apply_fails \in BOOLEAN :
        StoreOp("new_subresource_id",
                [r \in Replicas |-> new_subresource_id(store[r], apply_fails)])

StoreCommit ==
    StoreOp("commit", [r \in Replicas |-> kvstore_commit(store[r])])

\* One more put, in a run of puts that goes on for longer.
PutAgain ==
    /\ ops < MaxEvents
    /\ \E key \in Keys, value \in Values :
          LET done == [r \in Replicas |->
                          kvstore_put(store[r], KvStoreMetadata(Owner, None), key, value,
                                      Clock(r), FALSE)]
          IN  /\ store' = [r \in Replicas |-> done[r].st]
              /\ operation' = Op("put", store, done)
    /\ ops' = ops + 1
    /\ UNCHANGED <<commits, ledger, blocks, ledger_call, engineVars, codecVars>>
    /\ UNCHANGED <<bridgeVars, threadVars, serverVars>>

SpecEventLog == InitStore /\ [][PutAgain]_vars

\* The ledger logs an event in the current block.
LedgerLogEvent ==
    /\ Len(blocks.current) < MaxBlockEvents
    /\ ledger' = ledger_log_event(ledger)
    /\ blocks' = [blocks EXCEPT !.current = Append(@, ledger'.latest_tid)]
    /\ ledger_call' = LedgerCall("log_event", "none", ledger,
                                 Done(ledger', Ok(<<>>), <<>>), ledger_call.failures)
    /\ UNCHANGED <<store, operation, ops, commits, engineVars, codecVars>>
    /\ UNCHANGED <<bridgeVars, threadVars, serverVars>>

\* The ledger commits the current block.
LedgerCommit ==
    /\ ledger_get_height(ledger) < MaxHeight
    /\ \E fails \in CommitFailures :
          LET done == ledger_commit(ledger, fails)
              failed == IF fails = "none" THEN 0 ELSE 1
          IN  /\ ledger_call.failures + failed <= MaxFailures
              /\ ledger' = done.st
              /\ ledger_call' = LedgerCall("commit", fails, ledger, done,
                                           ledger_call.failures + failed)
    /\ blocks' = [current |-> <<>>, before |-> blocks.current]
    /\ UNCHANGED <<store, operation, ops, commits, engineVars, codecVars>>
    /\ UNCHANGED <<bridgeVars, threadVars, serverVars>>

NextLedger == LedgerLogEvent \/ LedgerCommit

InitLedger == Created("unit") /\ Opened(TRUE) /\ Loaded(AllRegular)

SpecLedger == InitLedger /\ [][NextLedger]_vars

\* The block heights of the migrations.
BlockHeights == 1 .. MaxMigrationHeight - 1

\* The configs: up to two entries, of the names of the registry and of a
\* name that is not in it.
ConfigEntries ==
    { IO(type, h) : type \in RegistryNames \cup {"unknown"}, h \in BlockHeights }

Configs ==
    {<<>>} \cup { <<a>> : a \in ConfigEntries }
           \cup { <<a, b>> : a \in ConfigEntries, b \in ConfigEntries }

\* The migrations come from a config, from the whole registry, or one by one.
InitMigration ==
    /\ Created("unit")
    /\ Opened(TRUE)
    /\ \/ \E config \in Configs :
             Loaded(Engine("config", config, load_migrations(Registry, config)))
       \/ Loaded(AllRegular)
       \/ \E i \in DOMAIN Registry, h \in BlockHeights, status \in {Enabled, Disabled} :
             Loaded(Engine("new", <<>>,
                           Ok(Registry[i].name :>
                                  Migration_new(Registry[i], Metadata(h), status))))

\* The migrations are invoked with a height above the last one.
Invoke ==
    /\ engine.loaded.ok
    /\ \E h \in engine.height + 1 .. engine.height + 2 :
          /\ h <= MaxMigrationHeight
          /\ LET done == invoke_migrations(engine.migrations, names_of(engine.migrations),
                                           engine.storage, h, NoEntries)
             IN  /\ engine' = [engine EXCEPT !.storage = done.storage, !.height = h]
                 /\ engine_call' = EngineCall("invoke", h, engine.storage, done.results,
                                              None, NoEntries)
    /\ UNCHANGED <<store, operation, ops, commits, ledger, blocks, ledger_call, codecVars>>
    /\ UNCHANGED <<bridgeVars, threadVars, serverVars>>

\* The hotfixes are consulted with the bytes of a transaction.
Hotfix ==
    /\ engine.loaded.ok
    /\ \E b \in {BrokenBytes, FixedBytes} :
          engine_call' = EngineCall("hotfix", engine.height, engine.storage, NoEntries,
                                    Some(b),
                                    consult_hotfixes(engine.migrations, b, engine.height))
    /\ UNCHANGED engine
    /\ UNCHANGED <<store, operation, ops, commits, ledger, blocks, ledger_call, codecVars>>
    /\ UNCHANGED <<bridgeVars, threadVars, serverVars>>

NextMigration == Invoke \/ Hotfix

SpecMigration == InitMigration /\ [][NextMigration]_vars

\* What is recorded of a call of mint_token or burn_token.
TokenCall(name, symbol, distribution, fails, before, done) ==
    [name |-> name, symbol |-> symbol, distribution |-> distribution, fails |-> fails,
     before |-> before, val |-> done.val, steps |-> done.steps, failures |-> 0]

\* The amounts of a distribution.
Amounts == 0 .. 2

\* The distributions to burn: to at most two addresses.
Distributions ==
    UNION { [S -> Amounts] : S \in { T \in SUBSET Holders : Cardinality(T) <= 2 } }

\* The distributions to mint: to one address.
MintDistributions == { d \in Distributions : Cardinality(DOMAIN d) = 1 }

\* The symbols of the calls: a token of the ledger and a symbol it has not.
CallSymbols == {"MFX", "UNK"}

MintToken ==
    /\ \E symbol \in CallSymbols, distribution \in MintDistributions :
          LET done == mint_token(ledger, symbol, distribution, "none") IN
          /\ ledger' = done.st
          /\ ledger_call' = TokenCall("mint_token", symbol, distribution, "none", ledger, done)
    /\ UNCHANGED <<store, operation, ops, commits, blocks, engineVars, codecVars>>
    /\ UNCHANGED <<bridgeVars, threadVars, serverVars>>

\* The storage errors of a burn: of the burns that get to the store.
BurnFailures(symbol, distribution) ==
    IF burn_token(ledger, symbol, distribution, "none").val.ok THEN TokenFailures
    ELSE {"none"}

BurnToken ==
    /\ \E symbol \in CallSymbols, distribution \in Distributions :
       \E fails \in BurnFailures(symbol, distribution) :
          LET done == burn_token(ledger, symbol, distribution, fails) IN
          /\ ledger' = done.st
          /\ ledger_call' = TokenCall("burn_token", symbol, distribution, fails, ledger, done)
    /\ UNCHANGED <<store, operation, ops, commits, blocks, engineVars, codecVars>>
    /\ UNCHANGED <<bridgeVars, threadVars, serverVars>>

NextTokens == MintToken \/ BurnToken

\* A ledger with its tokens, in a blockchain or on its own.
InitTokens ==
    /\ Created("unit")
    /\ Loaded(AllRegular)
    /\ store = Both(KvStoreStorage_new(NoAcl, Root, TRUE))
    /\ operation = Op("new", store, [r \in Replicas |-> Done(store[r], Ok(<<>>), <<"apply", "apply", "commit">>)])
    /\ ops = 0
    /\ commits = 0
    /\ blocks = [current |-> <<>>, before |-> <<>>]
    /\ \E blockchain \in BOOLEAN :
          /\ ledger = LedgerStorage_with_tokens(blockchain)
          /\ ledger_call = LedgerCall("new", "none", ledger, Done(ledger, Ok(<<>>), <<"commit">>), 0)

SpecTokens == InitTokens /\ [][NextTokens]_vars

\* The ledger commits a block and its migrations are invoked by the commit:
\* they run when the commit reaches update_at_height and it returns no error,
\* with the height it was given.
CommitBlock ==
    /\ engine.loaded.ok
    /\ ledger_get_height(ledger) < MaxMigrationHeight
    /\ \E fails \in CommitFailures :
          LET done == ledger_commit(ledger, fails)
              failed == IF fails = "none" THEN 0 ELSE 1
              invoked == /\ \E i \in DOMAIN done.steps : done.steps[i] = "update_at_height"
                         /\ fails # "update_at_height"
              h == IF invoked THEN done.st.tree.migrated[1] ELSE engine.height
              ran == invoke_migrations(engine.migrations, names_of(engine.migrations),
                                       engine.storage, h, NoEntries)
          IN  /\ ledger_call.failures + failed <= MaxFailures
              /\ ledger' = done.st
              /\ ledger_call' = LedgerCall("commit", fails, ledger, done,
                                           ledger_call.failures + failed)
              /\ engine' = IF invoked
                           THEN [engine EXCEPT !.storage = ran.storage, !.height = h]
                           ELSE engine
              /\ engine_call' = IF invoked
                                THEN EngineCall("invoke", h, engine.storage, ran.results,
                                                None, NoEntries)
                                ELSE EngineCall("not invoked", h, engine.storage, NoEntries,
                                                None, NoEntries)
    /\ blocks' = [current |-> <<>>, before |-> blocks.current]
    /\ UNCHANGED <<store, operation, ops, commits, codecVars>>
    /\ UNCHANGED <<bridgeVars, threadVars, serverVars>>

SpecCommit == InitMigration /\ [][CommitBlock]_vars

InitEvents ==
    /\ Created("unit")
    /\ Opened(TRUE)
    /\ engine = AllRegular
    /\ engine_call = EngineCall("load", 0, NoRuns, NoEntries, None, NoEntries)
    /\ \E ekind \in EventKindNames : \E e \in EventsOf(ekind) : codec = Made(e)

\* minicbor::to_vec(event)
Encode ==
    /\ codec.step = "made"
    /\ codec' = [codec EXCEPT !.step = "encoded", !.wire = Some(EventInfo_encode(codec.event))]
    /\ UNCHANGED <<store, operation, ops, commits, ledger, blocks, ledger_call, engineVars>>
    /\ UNCHANGED <<bridgeVars, threadVars, serverVars>>

\* The sender changes the entries of the map, or of the map of the
\* transaction in it, once.
Tamper ==
    /\ codec.step = "encoded"
    /\ ~codec.tampered
    /\ \E item \in Tampered(codec.wire[1]) \cup TamperedInner(codec.wire[1]) :
          codec' = [codec EXCEPT !.wire = Some(item), !.tampered = TRUE]
    /\ UNCHANGED <<store, operation, ops, commits, ledger, blocks, ledger_call, engineVars>>
    /\ UNCHANGED <<bridgeVars, threadVars, serverVars>>

\* minicbor::decode::<EventInfo>(bytes)
Decode ==
    /\ codec.step = "encoded"
    /\ codec' = [codec EXCEPT !.step = "decoded",
                              !.decoded = Some(EventInfo_decode(codec.wire[1]))]
    /\ UNCHANGED <<store, operation, ops, commits, ledger, blocks, ledger_call, engineVars>>
    /\ UNCHANGED <<bridgeVars, threadVars, serverVars>>

\* minicbor::to_vec of the event decoded.
EncodeAgain ==
    /\ codec.step = "decoded"
    /\ codec.decoded[1].ok
    /\ codec' = [codec EXCEPT !.step = "encoded again",
                              !.again = Some(EventInfo_encode(codec.decoded[1].val))]
    /\ UNCHANGED <<store, operation, ops, commits, ledger, blocks, ledger_call, engineVars>>
    /\ UNCHANGED <<bridgeVars, threadVars, serverVars>>

\* The identities a caller asks about.
AskedIdentities == Identities \cup SubIdentities \cup {Anonymous}

\* EventInfo::addresses, and EventInfo::is_about for every identity asked.
Addresses ==
    /\ codec.step = "made"
    /\ codec' = [codec EXCEPT
                   !.step = "asked",
                   !.about = Some([addresses |-> EventInfo_addresses(codec.event),
                                   is_about |-> [id \in AskedIdentities |->
                                                   EventInfo_is_about(codec.event, id)]])]
    /\ UNCHANGED <<store, operation, ops, commits, ledger, blocks, ledger_call, engineVars>>
    /\ UNCHANGED <<bridgeVars, threadVars, serverVars>>

NextEvents == Encode \/ Tamper \/ Decode \/ EncodeAgain \/ Addresses

SpecEvents == InitEvents /\ [][NextEvents]_vars

\* The acl a store is made with: of each key, its metadata or nothing.
AclKeys == {"k", "other"}

AclMetadata ==
    { KvStoreMetadata(owner, disabled) :
        owner \in {Owner, NewOwner}, disabled \in {None} \cup DisabledValues }

AclMaps ==
    UNION { [keys -> AclMetadata] : keys \in SUBSET AclKeys }

\* An operation with what new was given.
OpOn(name, args, before, done) ==
    [name |-> name, args |-> args, before |-> before,
     val |-> [r \in Replicas |-> done[r].val],
     steps |-> [r \in Replicas |-> done[r].steps]]

\* KvStoreStorage::new(acl, identity, path, blockchain) on every replica.
InitLoad ==
    /\ Created("unit")
    /\ Loaded(AllRegular)
    /\ \E acl \in AclMaps, identity \in {Root, Owner}, blockchain \in BOOLEAN :
          LET fresh == Both(KvStoreStorage_new(acl, identity, blockchain)) IN
          /\ store = fresh
          /\ operation = OpOn("new",
                               [acl |-> acl, identity |-> identity, loaded |-> FALSE],
                               fresh,
                               [r \in Replicas |->
                                   Done(fresh[r], Ok(<<>>), <<"apply", "apply", "commit">>)])
    /\ ops = 0
    /\ commits = 0
    /\ ledger = LedgerStorage_new
    /\ blocks = [current |-> <<>>, before |-> <<>>]
    /\ ledger_call = LedgerCall("new", "none", LedgerStorage_new,
                                Done(LedgerStorage_new, Ok(<<>>), <<"commit">>), 0)

\* KvStoreStorage::load(path, blockchain) of the path of the store, on every
\* replica: the store is what load returns, if it returns one.
Load ==
    /\ ~operation.args.loaded
    /\ \E blockchain \in BOOLEAN :
          LET loaded == [r \in Replicas |-> KvStoreStorage_load(store[r].disk, blockchain)]
          IN  /\ store' = [r \in Replicas |->
                              IF loaded[r].ok THEN loaded[r].val ELSE store[r]]
              /\ operation' = OpOn("load", [operation.args EXCEPT !.loaded = TRUE], store,
                                    [r \in Replicas |->
                                        Done(store'[r],
                                             IF loaded[r].ok THEN Ok(<<>>) ELSE loaded[r],
                                             <<"get", "get", "get">>)])
    /\ UNCHANGED <<ops, commits, ledger, blocks, ledger_call, engineVars, codecVars>>
    /\ UNCHANGED <<bridgeVars, threadVars, serverVars>>

\* get_metadata of a key, on every replica.
GetMetadata ==
    /\ operation.name # "get_metadata"
    /\ \E key \in AclKeys :
          operation' = OpOn("get_metadata", operation.args, store,
                            [r \in Replicas |->
                                Done(store[r], get_metadata(store[r], key), <<"get", key>>)])
    /\ UNCHANGED <<store, ops, commits, ledger, blocks, ledger_call, engineVars, codecVars>>
    /\ UNCHANGED <<bridgeVars, threadVars, serverVars>>

NextLoad == Load \/ GetMetadata

SpecLoad == InitLoad /\ [][NextLoad]_vars

NextStore == SetTime \/ Put \/ Disable \/ Transfer \/ NewSubresourceId \/ StoreCommit

SpecStore == InitStore /\ [][NextStore]_vars

Next == BeginBlock \/ CheckTx \/ DeliverTx

InitChain ==
    /\ running
    /\ LET out == <<init_chain(Bridge(1)), init_chain(Bridge(2))>> IN
       call' = OtherCall("init_chain", GarbageTx, None, NoAnswer, NoFailure, out)
    /\ UNCHANGED <<backendVars, threadVars, serverVars>>
    /\ UNCHANGED <<validator, cache, cache_poisoned, migrations, block_time,
                   delivered_ok, deliveries, running>>

Flush ==
    /\ running
    /\ LET out == <<flush(Bridge(1)), flush(Bridge(2))>> IN
       call' = OtherCall("flush", GarbageTx, None, NoAnswer, NoFailure, out)
    /\ UNCHANGED <<backendVars, threadVars, serverVars>>
    /\ UNCHANGED <<validator, cache, cache_poisoned, migrations, block_time,
                   delivered_ok, deliveries, running>>

\* Every handler of the bridge, over the cache validator.
NextHandlers ==
    \/ Info \/ InitChain \/ Query \/ BeginBlock \/ CheckTx
    \/ (deliveries < MaxHandlerDelivers /\ DeliverTx)
    \/ EndBlock \/ Flush \/ Commit

InitHandlers == Created("cache") /\ Opened(TRUE) /\ Loaded(AllRegular)

SpecHandlers == InitHandlers /\ [][NextHandlers]_vars

\* The lifecycle without the admission to the mempool: the calls consensus
\* makes for the blocks, and info and query.
NextAbci == BeginBlock \/ DeliverTx \/ EndBlock \/ Commit \/ Info \/ Query

SpecAbci == Init /\ [][NextAbci]_vars

Spec == Init /\ [][Next]_vars

(***************************************************************************)
(* Properties.                                                             *)
(***************************************************************************)
DeliveredBy(r) ==
    call.op = "deliver_tx" /\ call.resp[r].kind = "response"
    /\ call.resp[r].code = DeliverSuccess

IsNormalized(m) ==
    m.from = Anonymous /\ m.version = None /\ m.timestamp = Some(EPOCH)

\* C1: whenever a deliver_tx decodes its envelope and gets an answer from the
\* backend, the response it serializes into `data`, and the response it hands
\* to message_executed, has from = anonymous, no version and timestamp 0,
\* whatever the backend had put there.
C1_ResponseNormalized ==
    \A r \in Replicas :
        /\ DeliveredBy(r) =>
              LET m == from_bytes(call.resp[r].data) IN m.ok /\ IsNormalized(m.val)
        /\ call.op = "deliver_tx" =>
              \A i \in DOMAIN call.calls[r] : IsNormalized(call.calls[r][i].response)

\* A delivery returned a response the backend had stamped with its identity,
\* a version and its clock.
C1_Witness ==
    \E r \in Replicas :
        /\ DeliveredBy(r)
        /\ call.answer.kind = "response"
        /\ call.stamp[r] = Stamp(r)
        /\ call.calls[r] # <<>>

\* C2: two bridges that start alike and get the same calls, with the same
\* answers of the backend up to from, version and timestamp, return the same
\* code and the same data from every deliver_tx, whatever their clocks read.
C2_DeliverIndependentOfClock ==
    call.op = "deliver_tx" =>
        /\ call.resp[1].kind = call.resp[2].kind
        /\ call.resp[1].code = call.resp[2].code
        /\ call.resp[1].data = call.resp[2].data

\* Both replicas delivered a response that their backends had stamped
\* differently.
C2_Witness ==
    /\ DeliveredBy(1) /\ DeliveredBy(2)
    /\ call.answer.kind = "response"
    /\ call.stamp[1] # call.stamp[2]
    /\ call.stamp[1].timestamp # None /\ call.stamp[2].timestamp # None

\* C3: once deliver_tx has returned code 0 for an envelope, a later
\* deliver_tx of the same envelope does not reach the backend: the envelope is
\* not executed a second time.
C3_NoSecondExecution ==
    [][\A r \in Replicas : \A e \in delivered_ok[r] :
          ~(deliveries' = deliveries + 1 /\ call'.tx = e /\ call'.sent[r])]_vars

\* The envelope and the message of the last call decode.
CallDecodes ==
    from_slice(call.tx).ok /\ try_from(from_slice(call.tx).val).ok

\* C4: when check_tx takes the cache lock and validate_envelope rejects the
\* envelope, check_tx returns code 10 with the log "Transaction already in
\* cache" and reaches neither validate_request nor the check of the time; so
\* it is for an envelope, around a message that decodes, that deliver_tx
\* returned code 0 for and the cache recorded.
C4_ReplayRejectedInCheck ==
    \A r \in Replicas :
        call.op = "check_tx" /\ CallDecodes /\ ~cache_poisoned[r] =>
            /\ ~validate_envelope(Bridge(r), call.tx).ok =>
                  /\ call.resp[r].code = 10
                  /\ call.resp[r].log = "Transaction already in cache"
                  /\ call.reached[r] = {"validate_envelope"}
            /\ call.tx \in delivered_ok[r] /\ validator[r] = "cache" =>
                  /\ call.resp[r].code = 10
                  /\ call.resp[r].log = "Transaction already in cache"

\* check_tx of an envelope delivered with code 0 before returned code 10.
C4_Witness ==
    \E r \in Replicas :
        /\ call.op = "check_tx"
        /\ call.tx \in delivered_ok[r]
        /\ call.resp[r].code = 10
        /\ call.resp[r].log = "Transaction already in cache"
        /\ call.reached[r] = {"validate_envelope"}

\* C5: a deliver_tx that returns code 0 has called message_executed exactly
\* once, with the envelope of its transaction.
C5_ExecutedOncePerDelivery ==
    \A r \in Replicas :
        DeliveredBy(r) =>
            /\ Len(call.calls[r]) = 1
            /\ call.calls[r][1].envelope = call.tx

\* A delivery returned code 0 and the cache holds its envelope.
C5_Witness ==
    \E r \in Replicas :
        /\ DeliveredBy(r)
        /\ validator[r] = "cache"
        /\ call.tx \in cache[r]
        /\ Len(call.calls[r]) = 1

\* message_executed was called by the last deliver_tx and returned an error.
ExecutedFailed(r) ==
    /\ call.op = "deliver_tx"
    /\ call.calls[r] # <<>>
    /\ validator[r] = "cache"
    /\ call.fate.fails

\* C6: when message_executed returns an error, deliver_tx panics: it returns
\* no response, with whatever code.
C6_ExecutedFailureIsFatal ==
    \A r \in Replicas : ExecutedFailed(r) => call.resp[r].kind = "panic"

\* message_executed failed after the backend had answered, and the handler
\* panicked.
C6_Witness ==
    \E r \in Replicas :
        ExecutedFailed(r) /\ call.sent[r] /\ call.resp[r].kind = "panic"

\* C7: a deliver_tx that finds the lock of the cache poisoned is fatal: it
\* returns no response.
C7_PoisonedLockIsFatal ==
    \A r \in Replicas :
        call.op = "deliver_tx" /\ call.sent[r] /\ call.was_poisoned[r] =>
            call.resp[r].kind = "panic"

Distance(a, b) == IF a < b THEN b - a ELSE a - b

\* C8: with a block time T recorded by begin_block and a message with
\* timestamp t that has passed the validator, check_tx returns 0 when
\* |t - T| < 300 and 9 when |t - T| >= 300, before as after T.
C8_TimestampWindow ==
    \A r \in Replicas :
        ( /\ call.op = "check_tx"
          /\ call.tx.kind = "request" /\ call.tx.ts # None
          /\ block_time[r] # None
          /\ "validate_time" \in call.reached[r] ) =>
            LET d == Distance(call.tx.ts[1], block_time[r][1]) IN
            /\ d < 300 => call.resp[r].code = 0
            /\ d >= 300 => call.resp[r].code = 9

\* check_tx accepted a message 299 seconds after the block time.
C8_Witness ==
    \E r \in Replicas :
        /\ call.op = "check_tx"
        /\ block_time[r] = Some(BaseTime)
        /\ call.tx = RequestTx(Some(BaseTime + 299))
        /\ call.resp[r].code = 0

\* C9: a deliver_tx returns a code other than 0 only when the envelope does
\* not decode, the send fails or the response cannot be serialized; an answer
\* of the backend, an application error included, gives code 0.
C9_NonZeroOnlyFromTransport ==
    \A r \in Replicas :
        ( /\ call.op = "deliver_tx"
          /\ call.resp[r].kind = "response"
          /\ call.resp[r].code # 0 ) =>
            \/ ~from_slice(call.tx).ok
            \/ call.answer.kind = "transport_error"
            \/ call.fate.ser_fails

\* C10: check_tx returns a code in {0,4,5,6,7,8,9,10}: 4 for an envelope
\* that does not decode, 5 for a message that does not decode, 6 (never 0)
\* under a poisoned lock; deliver_tx returns a code in {0,1,2,3,11}: 2 for an
\* envelope that does not decode, 1 for a failed send, 3 for a response that
\* cannot be serialized.
C10_ClosedCodes ==
    \A r \in Replicas :
        /\ call.op = "check_tx" =>
              /\ call.resp[r].code \in {0, 4, 5, 6, 7, 8, 9, 10}
              /\ ~from_slice(call.tx).ok => call.resp[r].code = 4
              /\ from_slice(call.tx).ok /\ ~CallDecodes => call.resp[r].code = 5
              /\ CallDecodes /\ call.was_poisoned[r] => call.resp[r].code = 6
        /\ call.op = "deliver_tx" /\ call.resp[r].kind = "response" =>
              /\ call.resp[r].code \in {0, 1, 2, 3, 11}
              /\ ~from_slice(call.tx).ok => call.resp[r].code = 2
              /\ from_slice(call.tx).ok /\ call.answer.kind = "transport_error" =>
                    call.resp[r].code = 1
              /\ call.sent[r] /\ ~call.was_poisoned[r] /\ call.fate.ser_fails =>
                    call.resp[r].code = 3

\* check_tx of a message that decodes met a poisoned lock and returned 6.
C10_Witness ==
    \E r \in Replicas :
        /\ call.op = "check_tx"
        /\ CallDecodes
        /\ call.was_poisoned[r]
        /\ call.resp[r].code = 6

\* The height the migrations of replica r were last updated at has reached
\* the height the legacy_error_code migration is configured at.
LegacyReached(r) ==
    migrations[r].enabled /\ migrations[r].current_height >= migrations[r].block_height

\* C11: a deliver_tx that returns the backend's response returns its data
\* unchanged, except that an error with an attribute-specific code is returned
\* with the code Unknown when, and only when, the height of the last
\* begin_block has reached the height the legacy_error_code migration is
\* configured at.
C11_LegacyErrorCode ==
    \A r \in Replicas :
        DeliveredBy(r) /\ call.answer.kind = "response" =>
            LET d == call.answer.data
                out == from_bytes(call.resp[r].data).val.data
            IN  IF d[1] = "Err" /\ d[2] = "AttributeSpecific"
                THEN out = IF LegacyReached(r) THEN <<"Err", "Unknown">> ELSE d
                ELSE out = d

\* An attribute-specific error was delivered at the migration's height and
\* came back with the code Unknown.
C11_Witness ==
    \E r \in Replicas :
        /\ DeliveredBy(r)
        /\ call.answer.data = <<"Err", "AttributeSpecific">>
        /\ migrations[r].current_height = LegacyHeight
        /\ from_bytes(call.resp[r].data).val.data = <<"Err", "Unknown">>

\* An attribute-specific error was delivered one block before the migration's
\* height and came back as it was.
C11_WitnessBelow ==
    \E r \in Replicas :
        /\ DeliveredBy(r)
        /\ call.answer.data = <<"Err", "AttributeSpecific">>
        /\ migrations[r].current_height = LegacyHeight - 1
        /\ from_bytes(call.resp[r].data).val.data = <<"Err", "AttributeSpecific">>

\* The time of a header, as begin_block is given it.
HeaderTime(header) == IF header = None THEN None ELSE header[1].time

\* C12: every begin_block, also one whose update_at_height returns an error
\* and one whose call of the backend fails, returns a ResponseBeginBlock,
\* leaves block_time at the time of the header (None without a header or
\* without a time in it) and has sent abci.beginBlock with that time to the
\* backend once, as its last step, after the update of the migrations.
C12_BeginBlockNeverAborts ==
    \A r \in Replicas :
        call.op = "begin_block" =>
            /\ running
            /\ call.resp[r] = ResponseBeginBlock
            /\ block_time[r] = HeaderTime(call.header)
            /\ call.rpc[r] = <<Rpc("abci.beginBlock", [time |-> HeaderTime(call.header)],
                                   ~call.failure.call_fails)>>
            /\ call.steps[r][Len(call.steps[r])] = "abci.beginBlock"
            /\ call.header # None => call.steps[r][1] = "update_at_height"

\* update_at_height failed in a begin_block with a time in its header, and
\* the time was recorded and sent on.
C12_Witness ==
    \E r \in Replicas :
        /\ call.op = "begin_block"
        /\ call.failure.update_fails
        /\ call.header # None /\ call.header[1].time = Some(BaseTime)
        /\ block_time[r] = Some(BaseTime)
        /\ call.rpc[r] # <<>> /\ call.rpc[r][1].arg.time = Some(BaseTime)

\* C13: a commit whose call of the backend returns {retain_height, hash}
\* returns a ResponseCommit whose data is that hash and whose retain_height
\* is that number.
C13_CommitVerbatim ==
    \A r \in Replicas :
        call.op = "commit" /\ call.answer.kind = "map" =>
            /\ call.resp[r].kind = "response"
            /\ call.resp[r].data = call.answer.data.hash
            /\ call.resp[r].retain_height = u64(call.answer.data.retain_height)

\* A commit returned the hash and the retain_height 1 of the backend.
C13_SmallRetainHeight ==
    \E r \in Replicas :
        /\ call.op = "commit"
        /\ call.answer = AbciCommitInfo(One64, "hash")
        /\ call.resp[r] = ResponseCommit("hash", u64(One64))

\* The call of the backend made by the last handler failed in the transport,
\* or its answer does not decode.
TransportFailure ==
    \/ call.op \in {"info", "commit"} /\ call.answer \in {TransportFailed, Undecodable}
    \/ call.op \in {"begin_block", "end_block"} /\ call.failure.call_fails
    \/ call.op = "query"
          /\ (call.answer.kind = "transport_error" \/ call.failure.to_vec_fails)
    \/ call.op = "deliver_tx"
          /\ \/ call.answer.kind = "transport_error"
             \/ call.answer.kind = "bad_payload" /\ call.fate = NoFate

\* C14: a handler whose call of the backend fails in the transport, or gets
\* an answer that does not decode, returns its response all the same, and
\* where the response has a place for it (info, query, deliver_tx after a
\* failed send, commit) the response tells the failure; the bridge goes on.
C14_TransportNeverFatal ==
    \A r \in Replicas :
        TransportFailure /\ ~call.was_poisoned[r] =>
            /\ call.resp[r].kind = "response"
            /\ running
            /\ call.op = "info" => call.resp[r].data # "many-abci-bridge"
            /\ call.op = "query" => call.resp[r].code # Success
            /\ call.op = "deliver_tx" /\ call.answer.kind = "transport_error" =>
                  call.resp[r].code = DeliverTransportRequestError
            /\ call.op = "commit" => call.resp[r].data # "hash"

(***************************************************************************)
(* The stores of two replicas.                                             *)
(***************************************************************************)
Committed == operation.name = "commit"

\* C15: two replicas that went through the same operations (the same
\* set_time, the same mutating calls, the same commits) get the same root
\* hash from commit, whatever their clocks read.
C15_SameRootHash ==
    Committed => /\ operation.val[1].data.hash = operation.val[2].data.hash
                 /\ kvstore_hash(store[1]) = kvstore_hash(store[2])

\* The events of replica r that carry the time of its clock.
WallClockEvents(r) == {e \in store[r].tree.events : e.time = timestamp_now(Clock(r))}

\* The replicas differ in nothing but the times of such events.
C15_OnlyWallClockDiffers ==
    Committed /\ (\A r \in Replicas : WallClockEvents(r) = {})
        => operation.val[1].data.hash = operation.val[2].data.hash

C15_BlockTimeReached ==
    /\ Committed
    /\ store[1].tree.events # {}
    /\ \A r \in Replicas : WallClockEvents(r) = {}

Staged(r) == store[r].tree # operation.before[r].tree

\* The events the operation put in the store of replica r.
NewEvents(r) == store[r].tree.events \ operation.before[r].tree.events

\* C19 as stated: each of put, disable, transfer, new_subresource_id and the
\* height increment of commit that stages a write also logs an event.
C19_EveryMutationLogged ==
    \A r \in Replicas :
        /\ operation.name \in {"put", "disable", "transfer", "new_subresource_id", "commit"}
        /\ Staged(r)
        => NewEvents(r) # {}

EventOf(name) ==
    CASE name = "put" -> "KvStorePut"
      [] name = "disable" -> "KvStoreDisable"
      [] name = "transfer" -> "KvStoreTransfer"

\* C19: each of put, disable and transfer that stages a write logs one
\* event of its kind, for its key, under the next id, in the batch of the
\* write: both are written by the same commit.
C19_KvStoreWritesLogged ==
    \A r \in Replicas :
        operation.name \in {"put", "disable", "transfer"} /\ Staged(r)
        => /\ Cardinality(NewEvents(r)) = 1
           /\ \A e \in NewEvents(r) :
                  /\ e.id = store[r].latest_event_id
                  /\ e.id = EventId_add_one(operation.before[r].latest_event_id)
                  /\ e.content.kind = EventOf(operation.name)
                  /\ e.content.key \in DOMAIN store[r].tree.a
                  /\ e \in store[r].disk.events <=> store[r].disk = store[r].tree

C19_Witness ==
    /\ operation.name = "transfer"
    /\ \A r \in Replicas :
          /\ Staged(r)
          /\ store[r].blockchain
          /\ Cardinality(store[r].tree.events) = 2
          /\ store[r].disk.events = {}

\* new_subresource_id and commit stage their writes with no event.
C19_WitnessUnlogged ==
    /\ operation.name = "new_subresource_id"
    /\ \A r \in Replicas : Staged(r) /\ NewEvents(r) = {}

\* The last call of the operation on replica r was the persistent store's commit.
EndedWithCommit(r) ==
    LET steps == operation.steps[r] IN
    steps # <<>> /\ steps[Len(steps)] = "commit"

\* In a blockchain the operation wrote nothing on replica r; otherwise, if it
\* succeeded, it ended with a commit and everything it staged is written.
CommitDiscipline(r) ==
    IF store[r].blockchain
    THEN store[r].disk = operation.before[r].disk
    ELSE operation.val[r].ok => EndedWithCommit(r) /\ store[r].disk = store[r].tree

\* C20: with blockchain = true no mutating operation commits, and with
\* blockchain = false every mutating operation that succeeds ends with a
\* commit of the persistent store.
C20_CommitDiscipline ==
    \A r \in Replicas :
        operation.name \in {"put", "disable", "transfer", "new_subresource_id"}
        => CommitDiscipline(r)

\* The same of put, disable and transfer alone.
C20_KvStoreWrites ==
    \A r \in Replicas :
        operation.name \in {"put", "disable", "transfer"} => CommitDiscipline(r)

\* The same in a blockchain alone.
C20_BlockMode ==
    \A r \in Replicas :
        /\ operation.name \in {"put", "disable", "transfer", "new_subresource_id"}
        /\ store[r].blockchain
        => CommitDiscipline(r)

C20_StagedInBlockMode ==
    /\ operation.name = "new_subresource_id"
    /\ \A r \in Replicas :
          /\ store[r].blockchain
          /\ operation.val[r].ok
          /\ store[r].disk # store[r].tree

C20_CommittedInImmediateMode ==
    /\ operation.name = "put"
    /\ \A r \in Replicas :
          /\ ~store[r].blockchain
          /\ operation.val[r].ok
          /\ store[r].disk # operation.before[r].disk

(***************************************************************************)
(* The ids of the events.                                                  *)
(***************************************************************************)
\* C17: an event logged before another has the smaller id, in the order of
\* EventId, however many events were logged since the initial id.
C17_EventIdsIncrease ==
    \A r \in Replicas :
        \A e1 \in operation.before[r].tree.events : \A e2 \in NewEvents(r) :
            EventId_lt(e1.id, e2.id)

\* As long as the ids are of one byte they increase.
C17_OneByteIds ==
    \A r \in Replicas :
        \A e1 \in operation.before[r].tree.events : \A e2 \in NewEvents(r) :
            Len(e2.id) = 1 => EventId_lt(e1.id, e2.id)

C17_OneByteIdsReached ==
    \A r \in Replicas : \E e \in NewEvents(r) : e.id = <<255>>

\* C18: the first event of a block has a greater id than the last event of
\* the block before it.
C18_FirstAfterLast ==
    blocks.current # <<>> /\ blocks.before # <<>>
        => EventId_lt(blocks.before[Len(blocks.before)], blocks.current[1])

\* Between two blocks that both follow a commit it is so as long as the ids
\* are of the same length.
C18_SameLength ==
    /\ blocks.current # <<>> /\ blocks.before # <<>>
    /\ ledger_get_height(ledger) >= 2
    /\ Len(blocks.before[Len(blocks.before)]) = Len(blocks.current[1])
    => EventId_lt(blocks.before[Len(blocks.before)], blocks.current[1])

C18_SameLengthReached ==
    /\ ledger_get_height(ledger) = 7
    /\ blocks.before = <<(<<5, 0, 0, 0, 1>>), <<5, 0, 0, 0, 2>>>>
    /\ blocks.current = <<(<<6, 0, 0, 0, 1>>)>>

\* The block that follows the commit at height 255, and the one after it.
C18_LongerIdReached ==
    /\ blocks.before = <<(<<255, 0, 0, 0, 1>>)>>
    /\ blocks.current = <<(<<1, 0, 0, 0, 0, 1>>)>>

(***************************************************************************)
(* The commit of the ledger.                                               *)
(***************************************************************************)
CommitFailed == ledger_call.name = "commit" /\ ledger_call.fails # "none"

\* C21: when the commit of a block fails, at whatever step, the persisted
\* store is what it was before the commit: nothing of the block is in it,
\* its height neither.
C21_FailedCommitWritesNothing ==
    CommitFailed => ledger.disk = ledger_call.before.disk

\* It is so for a commit that fails before its first commit_storage returns.
C21_FailedBeforeFirstWrite ==
    CommitFailed /\ ledger_call.fails \in {"inc_height", "commit_storage"}
        => ledger.disk = ledger_call.before.disk

C21_FailedBeforeFirstWriteReached ==
    /\ CommitFailed
    /\ ledger_call.fails = "commit_storage"
    /\ ledger.disk = ledger_call.before.disk
    /\ ledger.tree # ledger.disk

(***************************************************************************)
(* The migrations.                                                         *)
(***************************************************************************)
Invoked == engine_call.name = "invoke"

\* The call ran the initialize function, the update function, of migration n.
RanInitialize(n) ==
    engine.storage.initialized[n] = engine_call.before.initialized[n] + 1

RanUpdate(n) ==
    engine.storage.updated[n] = engine_call.before.updated[n] + 1

RegularNames == { n \in DOMAIN engine.migrations : engine.migrations[n].migration.type = "Regular" }

HotfixNames == { n \in DOMAIN engine.migrations : engine.migrations[n].migration.type = "Hotfix" }

\* C22: the initialize function of a migration runs in the invocations whose
\* height is its block height, if it is Enabled, and in no other; with
\* heights that go up it has run at most once.
C22_InitializeAtBlockHeight ==
    \A n \in RegularNames :
        /\ engine.storage.initialized[n] <= 1
        /\ Invoked =>
              /\ RanInitialize(n) <=>
                     /\ engine.migrations[n].status = Enabled
                     /\ engine.migrations[n].metadata.block_height = engine_call.h
              /\ ~RanInitialize(n) =>
                     engine.storage.initialized[n] = engine_call.before.initialized[n]

\* It has run, and a later invocation leaves it at that.
C22_Witness ==
    /\ Invoked
    /\ engine_call.h = MaxMigrationHeight
    /\ \E n \in RegularNames :
          /\ engine.migrations[n].status = Enabled
          /\ engine.storage.initialized[n] = 1
          /\ ~RanInitialize(n)

\* A Disabled migration at its block height.
C22_WitnessDisabled ==
    /\ Invoked
    /\ \E n \in RegularNames :
          /\ engine.migrations[n].status = Disabled
          /\ engine.migrations[n].metadata.block_height = engine_call.h
          /\ ~RanInitialize(n)

\* C23: the update function of a migration runs in every invocation whose
\* height is its block height or above it, if it is Enabled, and in none
\* below its block height.
C23_UpdateFromBlockHeight ==
    Invoked =>
        \A n \in RegularNames :
            RanUpdate(n) <=>
                /\ engine.migrations[n].status = Enabled
                /\ engine_call.h >= engine.migrations[n].metadata.block_height

\* At the block height itself it is so.
C23_AtBlockHeight ==
    Invoked =>
        \A n \in RegularNames :
            engine_call.h = engine.migrations[n].metadata.block_height
                => (RanUpdate(n) <=> engine.migrations[n].status = Enabled)

C23_AtBlockHeightReached ==
    /\ Invoked
    /\ \E n \in RegularNames :
          /\ engine_call.h = engine.migrations[n].metadata.block_height
          /\ engine_call.h > 1
          /\ RanUpdate(n)

\* What it does: it runs up to the block height.
C23_UpToBlockHeight ==
    Invoked =>
        \A n \in RegularNames :
            RanUpdate(n) <=>
                /\ engine.migrations[n].status = Enabled
                /\ engine_call.h <= engine.migrations[n].metadata.block_height

Consulted == engine_call.name = "hotfix"

\* C24: a Hotfix migration is neither initialized nor updated: invoked at any
\* height, none of its functions runs and both calls return Ok; its rewrite
\* of the bytes is applied only if it is Enabled and the height is its block
\* height; the hotfix of a Regular migration returns None.
C24_HotfixOnlyRewrites ==
    /\ \A n \in HotfixNames :
          /\ engine.storage.initialized[n] = 0
          /\ engine.storage.updated[n] = 0
          /\ Invoked =>
                /\ engine_call.results[n].initialize
                /\ engine_call.results[n].update
          /\ Consulted =>
                engine_call.hotfixed[n] =
                    IF /\ engine.migrations[n].status = Enabled
                       /\ engine.migrations[n].metadata.block_height = engine_call.h
                    THEN hotfix_fn(engine_call.bytes[1])
                    ELSE None
    /\ \A n \in RegularNames : Consulted => engine_call.hotfixed[n] = None

\* A hotfix rewrote the bytes at its block height.
C24_Witness ==
    /\ Consulted
    /\ \E n \in HotfixNames :
          /\ engine.migrations[n].status = Enabled
          /\ engine.migrations[n].metadata.block_height = engine_call.h
          /\ engine_call.h > 1
          /\ engine_call.hotfixed[n] = Some(FixedBytes)

\* A Regular migration was asked for a hotfix at its block height.
C24_WitnessRegular ==
    /\ Consulted
    /\ engine_call.bytes = Some(BrokenBytes)
    /\ \E n \in RegularNames :
          /\ engine.migrations[n].status = Enabled
          /\ engine.migrations[n].metadata.block_height = engine_call.h

\* A Hotfix migration was invoked at its block height.
C24_WitnessInvoked ==
    /\ Invoked
    /\ \E n \in HotfixNames :
          /\ engine.migrations[n].status = Enabled
          /\ engine.migrations[n].metadata.block_height = engine_call.h

FromConfig == engine.source = "config"

\* The entries of the config that name the migration.
EntriesOf(n) == { i \in DOMAIN engine.config : engine.config[i].type = n }

\* C25: loading a config fails, with an error and no migrations, if an entry
\* names a migration that is not in the registry; when it succeeds, the
\* migrations are those the config names, each Enabled and with the block
\* height the config gives it (the last entry of a name counts).
C25_UnknownNameFailsLoading ==
    FromConfig =>
        /\ (\E i \in DOMAIN engine.config : engine.config[i].type \notin RegistryNames)
               => /\ ~engine.loaded.ok
                  /\ engine.migrations = NoEntries
        /\ engine.loaded.ok =>
               /\ DOMAIN engine.migrations
                     = { engine.config[i].type : i \in DOMAIN engine.config }
               /\ \A n \in DOMAIN engine.migrations :
                     /\ engine.migrations[n].status = Enabled
                     /\ engine.migrations[n].migration.name = n
                     /\ \E i \in EntriesOf(n) :
                           /\ \A j \in EntriesOf(n) : j <= i
                           /\ engine.migrations[n].metadata = engine.config[i].metadata

\* A config of two migrations was loaded and they were invoked.
C25_Witness ==
    /\ FromConfig
    /\ engine.loaded.ok
    /\ Cardinality(DOMAIN engine.migrations) = 2
    /\ \E n \in DOMAIN engine.migrations : engine.migrations[n].metadata.block_height > 1
    /\ Invoked

\* A config naming a known migration and then an unknown one failed to load.
C25_WitnessUnknown ==
    /\ FromConfig
    /\ Len(engine.config) = 2
    /\ engine.config[1].type \in RegistryNames
    /\ engine.config[2].type \notin RegistryNames
    /\ ~engine.loaded.ok

\* The names a caller may ask about.
MigrationNames == RegistryNames \cup {"unknown"}

\* What MigrationSet::is_active looks at, for a migration the engine holds.
EngineView(n) ==
    [enabled |-> engine.migrations[n].status = Enabled,
     block_height |-> engine.migrations[n].metadata.block_height,
     current_height |-> engine.height]

EngineIsActive(n) == n \in DOMAIN engine.migrations /\ is_active(EngineView(n))

\* C26: is_active of a name is true exactly if the engine holds an Enabled
\* migration of that name whose block height is at most the current height,
\* and, once true, it is true at every later height the engine sees.
C26_IsActiveMonotone ==
    [][\A n \in MigrationNames :
          /\ EngineIsActive(n) => EngineIsActive(n)'
          /\ EngineIsActive(n)' <=>
                 /\ n \in DOMAIN engine'.migrations
                 /\ engine'.migrations[n].status = Enabled
                 /\ engine'.migrations[n].metadata.block_height <= engine'.height]_vars

\* A migration became active at a height above 1 and the engine has seen a
\* later height since.
C26_Witness ==
    /\ Invoked
    /\ \E n \in DOMAIN engine.migrations :
          /\ EngineIsActive(n)
          /\ engine.migrations[n].metadata.block_height > 1
          /\ engine.height > engine.migrations[n].metadata.block_height
          /\ engine_call.before.initialized[n] = 1

\* A migration is not active below its block height, and a Disabled one not
\* above it.
C26_WitnessInactive ==
    /\ Invoked
    /\ \E n \in DOMAIN engine.migrations :
          /\ ~EngineIsActive(n)
          /\ engine.migrations[n].status = Disabled
          /\ engine.height > engine.migrations[n].metadata.block_height

Decoded == codec.step \in {"decoded", "encoded again"}
EncodedAgain == codec.step = "encoded again"

\* The event holds a multisig submit whose transaction is a multisig submit.
SubmitOfSubmit(e) ==
    /\ e.ekind = "AccountMultisigSubmit"
    /\ e.fields[4].method = "AccountMultisigSubmit"

InOrder(item) == \A i \in DOMAIN item.entries : item.entries[i].key = i - 1

C27_WitnessOutOfOrder ==
    /\ EncodedAgain
    /\ codec.tampered
    /\ SubmitOfSubmit(codec.decoded[1].val)
    /\ ~InOrder(codec.wire[1])
    /\ Len(codec.wire[1].entries) = Len(codec.again[1].entries)

\* The kind the first entry of the map names, if it is one.
KnownKinds(item) ==
    { k \in EventKindNames :
        /\ item.entries # <<>>
        /\ item.entries[1].value.cbor = "array"
        /\ item.entries[1].value.items = EventKinds[k].index }

DeclaredIndexes(k) == { EventKinds[k].fields[i].idx : i \in DOMAIN EventKinds[k].fields }

\* The keys of the entries after the first.
FieldKeys(item) == { item.entries[i].key : i \in DOMAIN item.entries \ {1} }

\* The maps in the place of a transaction of the event.
TransactionItems(item) ==
    { item.entries[i].value :
        i \in { j \in DOMAIN item.entries \ {1} :
                  /\ item.entries[j].key = 4
                  /\ item.entries[j].value.cbor = "map" } }

\* C28: decoding an EventInfo fails if the first entry of the map is not
\* key 0, if the kind under key 0 is not an EventKind, if an entry has an
\* index the variant does not declare, or if a declared field is missing;
\* and a transaction in it decodes only from a map of exactly two entries
\* with the keys 0 and 1 in this order.
C28_DecodingIsStrict ==
    Decoded =>
        LET item == codec.wire[1]
            failed == ~codec.decoded[1].ok
        IN  /\ (item.entries = <<>> \/ item.entries[1].key # 0) => failed
            /\ KnownKinds(item) = {} => failed
            /\ \A k \in KnownKinds(item) :
                  /\ ~(FieldKeys(item) \subseteq DeclaredIndexes(k)) => failed
                  /\ ~(DeclaredIndexes(k) \subseteq FieldKeys(item)) => failed
                  /\ k = "AccountMultisigSubmit" =>
                        \A t \in TransactionItems(item) :
                            keys_of(t) # <<0, 1>> => failed

\* A map with an entry of an index that is not declared was refused for it.
C28_Witness ==
    /\ Decoded
    /\ codec.wire[1].entries[1].key = 0
    /\ \E k \in KnownKinds(codec.wire[1]) :
          /\ ~(FieldKeys(codec.wire[1]) \subseteq DeclaredIndexes(k))
          /\ DeclaredIndexes(k) \subseteq FieldKeys(codec.wire[1])
    /\ ~codec.decoded[1].ok
    /\ codec.decoded[1].val[1] = "unknown variant"

C28_WitnessMissing ==
    /\ Decoded
    /\ ~codec.decoded[1].ok
    /\ codec.decoded[1].val[1] = "missing value"

C28_WitnessFirstKey ==
    /\ Decoded
    /\ ~codec.decoded[1].ok
    /\ codec.decoded[1].val[1] = "EventKind should be the first item."

C28_WitnessKind ==
    /\ Decoded
    /\ ~codec.decoded[1].ok
    /\ codec.decoded[1].val[1] = "Invalid attribute index"

C28_WitnessTransaction ==
    /\ Decoded
    /\ ~codec.decoded[1].ok
    /\ \E t \in TransactionItems(codec.wire[1]) : Len(t.entries) = 3
    /\ codec.decoded[1].val[1] = "Transactions must have 2 values"

C28_WitnessTransactionKeys ==
    /\ Decoded
    /\ ~codec.decoded[1].ok
    /\ \E t \in TransactionItems(codec.wire[1]) : keys_of(t) = <<0, 0>>
    /\ codec.decoded[1].val[1] = "Invalid field index"

Asked == codec.step = "asked"

\* Every address a transaction mentions: those of a send, and those of a
\* submit with those of the transaction it holds.
RECURSIVE MentionedIn(_)
MentionedIn(t) ==
    CASE t.method = "Send" ->
           {t.params.to} \cup (IF t.params.from = None THEN {} ELSE {t.params.from[1]})
      [] t.method = "AccountMultisigSubmit" ->
           {t.params.account} \cup MentionedIn(t.params.transaction)
      [] OTHER -> {}

\* Every address an event mentions: its fields that are the address of a
\* party, and those the transaction in it mentions.
Mentioned(e) ==
    LET decl == EventKinds[e.ekind].fields IN
    { e.fields[i] : i \in { j \in DOMAIN decl : decl[j].tag = "id" } }
    \cup { e.fields[i][1] :
             i \in { j \in DOMAIN decl : decl[j].tag = "id_non_null" /\ e.fields[j] # None } }
    \cup UNION { MentionedIn(e.fields[i]) :
                   i \in { j \in DOMAIN decl : decl[j].type = "Transaction" } }

\* C29: addresses() of an event is the set of all addresses it mentions,
\* those in a nested multisig transaction included; is_about(id) holds
\* exactly for these; an optional address that is absent adds nothing, not
\* the anonymous address either.
C29_AddressesOfEvent ==
    Asked =>
        /\ codec.about[1].addresses = Mentioned(codec.event)
        /\ \A id \in AskedIdentities :
              codec.about[1].is_about[id] <=> id \in Mentioned(codec.event)
        /\ ~codec.about[1].is_about[Anonymous]

\* Of an event without a transaction it is so.
C29_AddressesOfFields ==
    Asked /\ codec.event.ekind # "AccountMultisigSubmit" =>
        /\ codec.about[1].addresses = Mentioned(codec.event)
        /\ \A id \in AskedIdentities :
              codec.about[1].is_about[id] <=> id \in Mentioned(codec.event)
        /\ ~codec.about[1].is_about[Anonymous]

\* An executed multisig transaction without executer is about its account
\* only.
C29_NoExecuterReached ==
    /\ Asked
    /\ codec.event.ekind = "AccountMultisigExecute"
    /\ codec.event.fields[3] = None
    /\ codec.about[1].addresses = {codec.event.fields[1]}

\* What addresses() gives of an event with a transaction: the submitter
\* and the account.
C29_TransactionLeftOut ==
    Asked /\ codec.event.ekind = "AccountMultisigSubmit" =>
        codec.about[1].addresses = {codec.event.fields[1], codec.event.fields[2]}

\* The store of replica r was loaded from the path new had made it at.
LoadedAfterNew == operation.name = "load"

\* C30: after new(acl, identity, path, _) the load of the path succeeds and
\* gives a store with the root identity of new, the latest event id [0],
\* the next subresource id 0 and the height 0, in which the metadata of
\* every key of the acl can be read.
C30_LoadAfterNew ==
    /\ LoadedAfterNew =>
          \A r \in Replicas :
              /\ operation.val[r].ok
              /\ store[r].root_identity = operation.args.identity
              /\ store[r].latest_event_id = <<0>>
              /\ store[r].next_subresource = 0
              /\ get_height(store[r]) = 0
              /\ \A key \in AclKeys :
                    get_metadata(store[r], key) =
                        Ok(IF key \in DOMAIN operation.args.acl
                           THEN Some(Metadata_to_vec(operation.args.acl[key]))
                           ELSE None)
    /\ operation.name = "get_metadata" /\ operation.args.loaded =>
          \A r \in Replicas :
              operation.val[r].ok /\
              (operation.val[r].val # None <=> operation.steps[r][2] \in DOMAIN operation.args.acl)

\* A store made with an acl of two keys was loaded and the metadata of a
\* key read.
C30_Witness ==
    /\ operation.name = "get_metadata"
    /\ operation.args.loaded
    /\ DOMAIN operation.args.acl = AclKeys
    /\ operation.args.identity = Owner
    /\ \A r \in Replicas :
          operation.val[r] = Ok(Some(Metadata_to_vec(operation.args.acl[operation.steps[r][2]])))

(***************************************************************************)
(* C31: every storage commit writes the latest event id of memory to       *)
(* /latest_event_id, commits the batch, caches the root hash and then      *)
(* resets the latest event id of memory to EventId::from(height << SHIFT): *)
(* after a commit the cached hash is the root hash of the store and the    *)
(* latest event id of memory is the shifted height.                        *)
(***************************************************************************)
ShiftedHeight(height) == EventId_from_u64(shl(to_be_bytes(height), HEIGHT_EVENTID_SHIFT))

C31_CommitResetsLatestEventId ==
    operation.name = "commit" =>
        \A r \in Replicas :
            /\ operation.steps[r] = <<"apply", "apply", "commit">>
            /\ store[r].disk.latest_event_id
                   = Some(EventId_encode(operation.before[r].latest_event_id))
            /\ store[r].current_hash = Some(root_hash(store[r].disk))
            /\ store[r].latest_event_id = ShiftedHeight(get_height(operation.before[r]))

\* The part of it that the commit of the key-value store does.
C31_CommitWritesAndCaches ==
    operation.name = "commit" =>
        \A r \in Replicas :
            /\ operation.steps[r] = <<"apply", "apply", "commit">>
            /\ store[r].disk.latest_event_id
                   = Some(EventId_encode(operation.before[r].latest_event_id))
            /\ store[r].current_hash = Some(root_hash(store[r].disk))
            /\ store[r].latest_event_id = operation.before[r].latest_event_id

\* The commit of the ledger does all of it.
C31_LedgerCommitResets ==
    (ledger_call.name = "commit" /\ ledger_call.fails = "none") =>
        /\ ledger.current_hash = Some(root_hash(ledger.disk))
        /\ ledger.latest_tid = ShiftedHeight(ledger_get_height(ledger_call.before))

(***************************************************************************)
(* C32: a commit of the ledger's store invokes the migrations exactly      *)
(* once, with height + 1, height being the height before the commit's      *)
(* increment; in the invocation initialize runs before update; and the     *)
(* migrations only stage their writes, the commit of the store being the   *)
(* ledger's.  A commit that returns the error of inc_height or of the      *)
(* first commit_storage has committed nothing and invoked nothing.         *)
(***************************************************************************)
\* How often the steps of the last commit invoked the migrations.
Invocations ==
    Cardinality({ i \in DOMAIN ledger_call.steps : ledger_call.steps[i] = "update_at_height" })

\* How often the steps of the last commit committed the persistent store.
StoreCommits ==
    Cardinality({ i \in DOMAIN ledger_call.steps : ledger_call.steps[i] = "commit" })

\* The calls of the functions of the migrations in the last invocation.
CallsOfInvocation ==
    SubSeq(engine.storage.calls, Len(engine_call.before.calls) + 1, Len(engine.storage.calls))

C32_EngineInvokedOnceWithNextHeight ==
    ledger_call.name = "commit" =>
        LET height == ledger_get_height(ledger_call.before)
            calls == CallsOfInvocation
        IN  /\ Invocations = IF StoreCommits = 0 THEN 0 ELSE 1
            /\ StoreCommits = 0 <=> ledger_call.fails \in {"inc_height", "commit_storage"}
            /\ StoreCommits > 0 => ledger_call.steps[1] = "commit"
                                   /\ ledger_call.steps[2] = "update_at_height"
            /\ engine_call.name = "invoke" <=>
                   (Invocations = 1 /\ ledger_call.fails # "update_at_height")
            /\ engine_call.name = "invoke" =>
                   /\ engine_call.h = height + 1
                   /\ ledger.tree.migrated = Some(height + 1)
                   /\ \A i, j \in DOMAIN calls :
                          (calls[i][1] = "initialize" /\ calls[j][1] = "update"
                              /\ calls[i][2] = calls[j][2]) => i < j
            /\ engine_call.name # "invoke" => engine.storage = engine_call.before
            /\ ledger_call.fails = "commit_storage again" =>
                   /\ ledger.tree.migrated = Some(height + 1)
                   /\ ledger.disk.migrated = ledger_call.before.tree.migrated
                   /\ ledger.disk = commit_storage(ledger_inc_height(ledger_call.before).st).disk

\* A commit has invoked the migrations with the next height, and a migration
\* was initialized and then updated in it.
C32_Witness ==
    /\ ledger_call.name = "commit"
    /\ ledger_call.fails = "none"
    /\ engine_call.name = "invoke"
    /\ engine_call.h = ledger_get_height(ledger_call.before) + 1
    /\ engine_call.h > 1
    /\ \E n \in RegularNames :
          CallsOfInvocation = <<<<"initialize", n>>, <<"update", n>>>>

\* The migrations have staged their writes and the commit after them failed:
\* the writes are not in the persisted store.
C32_WitnessStagedOnly ==
    /\ ledger_call.name = "commit"
    /\ ledger_call.fails = "commit_storage again"
    /\ engine_call.name = "invoke"
    /\ ledger.tree.migrated # ledger.disk.migrated

(***************************************************************************)
(* C33: one writer for each shared object of the bridge.  block_time and   *)
(* the migrations are written by begin_block only, the validator's cache   *)
(* (and the state of its lock) by deliver_tx only: info, init_chain,       *)
(* query, check_tx, end_block, flush and commit leave all three as they    *)
(* were.                                                                   *)
(***************************************************************************)
C33_OneWriterPerObject ==
    [][/\ call'.op # "begin_block" => UNCHANGED <<block_time, migrations>>
       /\ call'.op # "deliver_tx" => UNCHANGED <<cache, cache_poisoned>>
       /\ call'.op \in {"info", "init_chain", "query", "check_tx", "end_block",
                        "flush", "commit"}
              => UNCHANGED <<block_time, migrations, cache, cache_poisoned>>]_vars

\* The handlers that write nothing have been called in a state that
\* begin_block and deliver_tx have written.
Written ==
    \A r \in Replicas :
        /\ block_time[r] # None
        /\ migrations[r].current_height > 0
        /\ cache[r] # {}

C33_Witness == call.op = "check_tx" /\ Written

C33_WitnessEndBlock == call.op = "end_block" /\ Written

C33_WitnessCommit == call.op = "commit" /\ Written

C33_WitnessFlush == call.op \in {"flush", "init_chain", "info", "query"} /\ Written

(***************************************************************************)
(* C34: the response deliver_tx hands to message_executed is the           *)
(* normalized response, with its error code rewritten when the migration   *)
(* is active, and it is the response whose bytes deliver_tx returns as     *)
(* data: it is normalized and rewritten before message_executed and not    *)
(* changed after it.                                                       *)
(***************************************************************************)
\* The response deliver_tx decoded from the backend's answer on replica r.
DecodedResponse(r) ==
    LET sent == send_envelope(call.answer, call.stamp[r])
        payload == IF sent.val.payload = None THEN <<>> ELSE sent.val.payload[1]
        decoded == from_bytes(payload)
    IN  IF decoded.ok THEN decoded.val ELSE DefaultResponse

C34_ExecutedResponseIsReturned ==
    call.op = "deliver_tx" =>
        \A r \in Replicas :
            /\ \A i \in DOMAIN call.calls[r] :
                  LET response == call.calls[r][i].response
                      backend == DecodedResponse(r)
                      specific == backend.data[1] = "Err"
                                    /\ is_attribute_specific(backend.data[2])
                  IN  /\ response.from = Anonymous
                      /\ response.version = None
                      /\ response.timestamp = Some(EPOCH)
                      /\ response.data = IF is_active(migrations[r]) /\ specific
                                         THEN <<"Err", "Unknown">>
                                         ELSE backend.data
                      /\ (call.resp[r].kind = "response" /\ call.resp[r].code = DeliverSuccess)
                             => call.resp[r].data = to_bytes(response)
            /\ (call.resp[r].kind = "response" /\ call.resp[r].code = DeliverSuccess)
                   => Len(call.calls[r]) = 1

\* A delivery whose response was stamped by the backend and rewritten under
\* the active migration has returned the bytes of what message_executed got.
C34_Witness ==
    /\ call.op = "deliver_tx"
    /\ \A r \in Replicas :
          /\ is_active(migrations[r])
          /\ call.stamp[r] = Stamp(r)
          /\ call.answer.data = <<"Err", "AttributeSpecific">>
          /\ call.resp[r].kind = "response"
          /\ call.resp[r].code = DeliverSuccess
          /\ Len(call.calls[r]) = 1
          /\ call.calls[r][1].response.data = <<"Err", "Unknown">>
          /\ call.resp[r].data = to_bytes(call.calls[r][1].response)

\* The same with the migration not active: the code is left as it came.
C34_WitnessInactive ==
    /\ call.op = "deliver_tx"
    /\ \A r \in Replicas :
          /\ ~is_active(migrations[r])
          /\ call.stamp[r] = Stamp(r)
          /\ call.resp[r].kind = "response"
          /\ call.resp[r].code = DeliverSuccess
          /\ Len(call.calls[r]) = 1
          /\ call.calls[r][1].response.data = <<"Err", "AttributeSpecific">>

(***************************************************************************)
(* C35: burn_token is all or nothing.  When it succeeds, the balance of    *)
(* the symbol of every address of the distribution is lower by its amount  *)
(* and the circulating and the total supply are lower by the sum of the    *)
(* amounts; when an amount is zero or an address holds less than its       *)
(* amount, it returns an error and stages no write of a balance or of the  *)
(* supply.                                                                 *)
(***************************************************************************)
Burnt == ledger_call.name = "burn_token"

\* The balance of a symbol an address holds in a store: nothing is zero.
BalanceIn(st, address, symbol) ==
    LET balances == get_multiple_balances(st, address, {symbol}) IN
    IF symbol \in DOMAIN balances THEN balances[symbol] ELSE 0

RECURSIVE SumOf(_, _)
SumOf(distribution, addresses) ==
    IF addresses = <<>> THEN 0
    ELSE distribution[Head(addresses)] + SumOf(distribution, Tail(addresses))

\* The distribution has an amount of zero, or more than an address holds.
Unburnable ==
    \E a \in DOMAIN ledger_call.distribution :
        \/ ledger_call.distribution[a] = 0
        \/ BalanceIn(ledger_call.before, a, ledger_call.symbol) < ledger_call.distribution[a]

C35_BurnIsAllOrNothing ==
    Burnt =>
        LET before == ledger_call.before
            symbol == ledger_call.symbol
            distribution == ledger_call.distribution
            sum == SumOf(distribution, addresses_of(distribution))
        IN  /\ ledger_call.val.ok =>
                  /\ ~Unburnable
                  /\ \A a \in Holders :
                        BalanceIn(ledger, a, symbol)
                            = BalanceIn(before, a, symbol)
                                - (IF a \in DOMAIN distribution THEN distribution[a] ELSE 0)
                  /\ ledger.tree.tokens[symbol].circulating
                         = before.tree.tokens[symbol].circulating - sum
                  /\ ledger.tree.tokens[symbol].total = before.tree.tokens[symbol].total - sum
                  /\ \A k \in DOMAIN ledger.tree.balances :
                        k[2] # symbol => ledger.tree.balances[k] = before.tree.balances[k]
                  /\ \A s \in DOMAIN ledger.tree.tokens :
                        s # symbol => ledger.tree.tokens[s] = before.tree.tokens[s]
            /\ Unburnable =>
                  /\ ~ledger_call.val.ok
                  /\ ledger_call.val.val[1] \in {"unable_to_distribute_zero", "missing_funds"}
                  /\ ledger_call.steps = <<>>
                  /\ ledger.tree = before.tree
                  /\ ledger.disk = before.disk

\* A burn from two addresses that hold tokens has gone through.
C35_Witness ==
    /\ Burnt
    /\ ledger_call.val.ok
    /\ Cardinality(DOMAIN ledger_call.distribution) = 2
    /\ ledger.tree.tokens[ledger_call.symbol].circulating > 0
    /\ ledger.tree.tokens[ledger_call.symbol].circulating
           < ledger_call.before.tree.tokens[ledger_call.symbol].circulating

\* A burn whose first address has the funds and whose second has not.
C35_WitnessMissingFunds ==
    /\ Burnt
    /\ ~ledger_call.val.ok
    /\ ledger_call.val.val[1] = "missing_funds"
    /\ LET addresses == addresses_of(ledger_call.distribution) IN
       /\ Len(addresses) = 2
       /\ ledger_call.distribution[addresses[1]] > 0
       /\ BalanceIn(ledger_call.before, addresses[1], ledger_call.symbol)
              >= ledger_call.distribution[addresses[1]]

\* A burn whose first address has the funds and whose second has no amount.
C35_WitnessZero ==
    /\ Burnt
    /\ ~ledger_call.val.ok
    /\ ledger_call.val.val[1] = "unable_to_distribute_zero"
    /\ LET addresses == addresses_of(ledger_call.distribution) IN
       /\ Len(addresses) = 2
       /\ ledger_call.val.val[2] = addresses[2]
       /\ BalanceIn(ledger_call.before, addresses[1], ledger_call.symbol)
              >= ledger_call.distribution[addresses[1]]

(***************************************************************************)
(* C36: a deliver_tx that returns a code other than 0 has not called       *)
(* message_executed, and the validator's cache after it is the cache       *)
(* before it: for each of the codes 1, 2, 3 and 11.                        *)
(***************************************************************************)
\* The step is a deliver_tx that returned the code on replica r.
DeliverReturned(r, code) ==
    /\ call'.op = "deliver_tx"
    /\ call'.resp[r].kind = "response"
    /\ call'.resp[r].code = code

\* The step left the validator's cache of replica r alone, calling nothing.
CacheUntouched(r) ==
    /\ call'.calls[r] = <<>>
    /\ cache'[r] = cache[r]
    /\ cache_poisoned'[r] = cache_poisoned[r]

C36_NonZeroCodeLeavesCache ==
    [][\A r \in Replicas :
          \A code \in {DeliverTransportRequestError, DeliverCoseDeserializeError,
                       DeliverTransportResponseError, DeliverRwLockPoisonedError} :
              DeliverReturned(r, code) => CacheUntouched(r)]_vars

\* C36, as the code has it: the codes 1, 2 and 11 are returned without a
\* call of message_executed and leave the cache as it was; the code 3 is
\* returned after message_executed has returned Ok, so that the cache holds
\* what message_executed recorded; and no other code than 0 is returned.
C36_CodesBeforeTheCacheLeaveIt ==
    [][\A r \in Replicas :
          /\ \A code \in {DeliverTransportRequestError, DeliverCoseDeserializeError,
                          DeliverRwLockPoisonedError} :
                 DeliverReturned(r, code) => CacheUntouched(r)
          /\ DeliverReturned(r, DeliverTransportResponseError) =>
                 /\ Len(call'.calls[r]) = 1
                 /\ message_executed(Bridge(r), call'.calls[r][1].envelope,
                                     call'.calls[r][1].response, FALSE)
                        = Ok(cache'[r])
                 /\ cache_poisoned'[r] = cache_poisoned[r]
          /\ (call'.op = "deliver_tx" /\ call'.resp[r].kind = "response")
                 => call'.resp[r].code \in
                        {DeliverSuccess, DeliverTransportRequestError,
                         DeliverCoseDeserializeError, DeliverTransportResponseError,
                         DeliverRwLockPoisonedError}]_vars

\* A delivery has returned 3 and the cache holds its envelope.
C36_Witness ==
    /\ call.op = "deliver_tx"
    /\ \A r \in Replicas :
          /\ validator[r] = "cache"
          /\ call.resp[r].kind = "response"
          /\ call.resp[r].code = DeliverTransportResponseError
          /\ Len(call.calls[r]) = 1
          /\ call.calls[r][1].envelope \in cache[r]

\* A delivery has returned 11, 1, 2 after the cache has recorded an envelope.
C36_WitnessPoisoned ==
    /\ call.op = "deliver_tx"
    /\ \A r \in Replicas :
          /\ validator[r] = "cache"
          /\ call.resp[r].kind = "response"
          /\ call.resp[r].code = DeliverRwLockPoisonedError
          /\ call.sent[r]

C36_WitnessTransport ==
    /\ call.op = "deliver_tx"
    /\ \A r \in Replicas :
          /\ cache[r] # {}
          /\ call.resp[r].kind = "response"
          /\ call.resp[r].code = DeliverTransportRequestError

C36_WitnessCose ==
    /\ call.op = "deliver_tx"
    /\ \A r \in Replicas :
          /\ cache[r] # {}
          /\ call.resp[r].kind = "response"
          /\ call.resp[r].code = DeliverCoseDeserializeError

(***************************************************************************)
(* many-abci/src/abci_app.rs, one lock operation at a time: check_tx,      *)
(* deliver_tx and begin_block of one bridge, each in its own thread.  The  *)
(* two replicas of the variables move together.                            *)
(***************************************************************************)
\* The envelope the threads check and deliver, its layers decoded.
ThreadTx == RequestTx(Some(BaseTime))
ThreadCose == from_slice(ThreadTx).val
ThreadMessage == try_from(ThreadCose).val

\* The headers of the blocks that begin.
ThreadHeaders == {None, Some([time |-> Some(BaseTime), height |-> LegacyHeight])}

\* What the backend answers to the envelope.
ThreadAnswers == { a \in Answers : a.kind = "transport_error" \/ a.data = <<"Err", "AttributeSpecific">> }

\* RwLock::read and RwLock::write return once no writer, or nobody else,
\* holds the lock.
CanTake(h, lock) ==
    IF <<h, lock>> \in Writes
    THEN \A o \in Handlers \ {h} : lock \notin threads.held[o]
    ELSE \A o \in Handlers \ {h} : ~(lock \in threads.held[o] /\ <<o, lock>> \in Writes)

\* The guards after handler h took the lock.
take(held, h, lock) == [held EXCEPT ![h] = @ \cup {lock}]

\* The guards after the guard of handler h went out of scope.
drop(held, h, lock) == [held EXCEPT ![h] = @ \ {lock}]

\* The threads after handler h got the lock it waited for and went on to `to`.
acquired(h, lock, to) == [threads EXCEPT !.pc[h] = to, !.held = take(@, h, lock)]

\* do_check_tx: the two decodings, up to self.cache.read().
CheckStart ==
    /\ threads.pc["check_tx"] = "idle"
    /\ threads' = [threads EXCEPT
                      !.pc["check_tx"] = "cache.read",
                      !.check = [after_executed |-> ThreadTx \in threads.executed,
                                 after_recorded |-> ThreadTx \in threads.recorded,
                                 locked_after_recorded |-> FALSE,
                                 reached |-> {}]]
    /\ UNCHANGED <<bridgeVars, backendVars, serverVars>>

\* do_check_tx: self.cache.read() returns.
CheckLockCache ==
    /\ threads.pc["check_tx"] = "cache.read"
    /\ CanTake("check_tx", "cache")
    /\ threads' = [acquired("check_tx", "cache", "validate") EXCEPT
                      !.check.locked_after_recorded = ThreadTx \in threads.recorded]
    /\ UNCHANGED <<bridgeVars, backendVars, serverVars>>

\* A do_check_tx whose validator guard lives to the end of the function.
CheckValidateKeepingGuard ==
    /\ threads.pc["check_tx"] = "validate"
    /\ LET v == check_validate(Bridge(1), ThreadCose, ThreadMessage) IN
       threads' = [threads EXCEPT
                      !.pc["check_tx"] = IF v.result.ok THEN "block_time.read" ELSE "idle",
                      !.held = IF v.result.ok THEN @ ELSE drop(@, "check_tx", "cache"),
                      !.check.reached = v.reached,
                      !.result["check_tx"] =
                          IF v.result.ok THEN @
                          ELSE Response(v.result.val[1], <<>>, v.result.val[2])]
    /\ UNCHANGED <<bridgeVars, backendVars, serverVars>>

\* do_check_tx: "Run the same validator as the server would", to the end of
\* the block.
CheckValidate ==
    /\ threads.pc["check_tx"] = "validate"
    /\ LET v == check_validate(Bridge(1), ThreadCose, ThreadMessage) IN
       threads' = [threads EXCEPT
                      !.pc["check_tx"] = IF v.result.ok THEN "block_time.read" ELSE "idle",
                      !.held = drop(@, "check_tx", "cache"),
                      !.check.reached = v.reached,
                      !.result["check_tx"] =
                          IF v.result.ok THEN @
                          ELSE Response(v.result.val[1], <<>>, v.result.val[2])]
    /\ UNCHANGED <<bridgeVars, backendVars, serverVars>>

\* do_check_tx: self.block_time.read() returns.
CheckLockTime ==
    /\ threads.pc["check_tx"] = "block_time.read"
    /\ CanTake("check_tx", "block_time")
    /\ threads' = acquired("check_tx", "block_time", "validate_time")
    /\ UNCHANGED <<bridgeVars, backendVars, serverVars>>

\* do_check_tx: "Check the time of the transaction", to the end.
CheckTime ==
    /\ threads.pc["check_tx"] = "validate_time"
    /\ \E wall \in WallTimes :
          LET t == check_time(Bridge(1), ThreadMessage, wall, threads.check.reached) IN
          threads' = [threads EXCEPT
                         !.pc["check_tx"] = "idle",
                         !.held = drop(@, "check_tx", "block_time"),
                         !.check.reached = t.reached,
                         !.result["check_tx"] =
                             IF t.result.ok THEN Response(CheckSuccess, <<>>, "")
                             ELSE Response(t.result.val[1], <<>>, t.result.val[2])]
    /\ UNCHANGED <<bridgeVars, backendVars, serverVars>>

\* begin_block: the header is read, up to self.migrations.write().
BeginStart ==
    /\ threads.pc["begin_block"] = "idle"
    /\ \E header \in ThreadHeaders :
          threads' = [threads EXCEPT
                         !.pc["begin_block"] =
                             IF begin_block_header(header).height = None
                             THEN "block_time.write" ELSE "migrations.write",
                         !.header = header]
    /\ UNCHANGED <<bridgeVars, backendVars, serverVars>>

\* begin_block: self.migrations.write() returns.
BeginLockMigrations ==
    /\ threads.pc["begin_block"] = "migrations.write"
    /\ CanTake("begin_block", "migrations")
    /\ threads' = acquired("begin_block", "migrations", "update_at_height")
    /\ UNCHANGED <<bridgeVars, backendVars, serverVars>>

\* begin_block: update_at_height, its error dropped, to the end of the if let.
BeginUpdate ==
    /\ threads.pc["begin_block"] = "update_at_height"
    /\ \E fails \in BOOLEAN :
          LET h == begin_block_header(threads.header)
              u == update_at_height(migrations[1], h.height[1], fails)
          IN  migrations' = Both(u.migrations)
    /\ threads' = [threads EXCEPT
                      !.pc["begin_block"] = "block_time.write",
                      !.held = drop(@, "begin_block", "migrations")]
    /\ UNCHANGED <<validator, cache, cache_poisoned, block_time, delivered_ok, deliveries,
                   running, call>>
    /\ UNCHANGED <<backendVars, serverVars>>

\* begin_block: self.block_time.write() returns.
BeginLockTime ==
    /\ threads.pc["begin_block"] = "block_time.write"
    /\ CanTake("begin_block", "block_time")
    /\ threads' = acquired("begin_block", "block_time", "block_time")
    /\ UNCHANGED <<bridgeVars, backendVars, serverVars>>

\* begin_block: the time of the header is stored, the guard is a temporary.
BeginSetTime ==
    /\ threads.pc["begin_block"] = "block_time"
    /\ block_time' = Both(begin_block_header(threads.header).time)
    /\ threads' = [threads EXCEPT
                      !.pc["begin_block"] = "abci.beginBlock",
                      !.held = drop(@, "begin_block", "block_time")]
    /\ UNCHANGED <<validator, cache, cache_poisoned, migrations, delivered_ok, deliveries,
                   running, call>>
    /\ UNCHANGED <<backendVars, serverVars>>

\* begin_block: the call of abci.beginBlock comes back, answered or not.
BeginCall ==
    /\ threads.pc["begin_block"] = "abci.beginBlock"
    /\ threads' = [threads EXCEPT
                      !.pc["begin_block"] = "idle",
                      !.result["begin_block"] = ResponseBeginBlock]
    /\ UNCHANGED <<bridgeVars, backendVars, serverVars>>

\* deliver_tx: the envelope is decoded and sent.
DeliverStart ==
    /\ threads.pc["deliver_tx"] = "idle"
    /\ threads' = [threads EXCEPT !.pc["deliver_tx"] = "send_envelope"]
    /\ UNCHANGED <<bridgeVars, backendVars, serverVars>>

\* deliver_tx: send_envelope comes back; the backend has executed the
\* envelope when it answers.  The response is decoded and normalized.
DeliverSend ==
    /\ threads.pc["deliver_tx"] = "send_envelope"
    /\ \E answer \in ThreadAnswers :
          LET sent == send_envelope(answer, Stamp(1))
              payload == IF sent.val.payload = None THEN <<>> ELSE sent.val.payload[1]
              decoded == from_bytes(payload)
          IN  threads' =
                 IF ~sent.ok
                 THEN [threads EXCEPT
                          !.pc["deliver_tx"] = "idle",
                          !.result["deliver_tx"] =
                              Response(DeliverTransportRequestError, <<>>, sent.val)]
                 ELSE [threads EXCEPT
                          !.pc["deliver_tx"] = "migrations.read",
                          !.executed = @ \cup {ThreadTx},
                          !.response = normalize(IF decoded.ok THEN decoded.val
                                                 ELSE DefaultResponse)]
    /\ UNCHANGED <<bridgeVars, backendVars, serverVars>>

\* deliver_tx: self.migrations.read() returns.
DeliverLockMigrations ==
    /\ threads.pc["deliver_tx"] = "migrations.read"
    /\ CanTake("deliver_tx", "migrations")
    /\ threads' = acquired("deliver_tx", "migrations", "legacy_error_code")
    /\ UNCHANGED <<bridgeVars, backendVars, serverVars>>

\* deliver_tx: the error code is rewritten, to the end of the if let.
DeliverRewrite ==
    /\ threads.pc["deliver_tx"] = "legacy_error_code"
    /\ threads' = [threads EXCEPT
                      !.pc["deliver_tx"] = "cache.write",
                      !.held = drop(@, "deliver_tx", "migrations"),
                      !.response = legacy_error_code(Bridge(1), threads.response)]
    /\ UNCHANGED <<bridgeVars, backendVars, serverVars>>

\* deliver_tx: self.cache.write() returns.
DeliverLockCache ==
    /\ threads.pc["deliver_tx"] = "cache.write"
    /\ CanTake("deliver_tx", "cache")
    /\ threads' = acquired("deliver_tx", "cache", "message_executed")
    /\ UNCHANGED <<bridgeVars, backendVars, serverVars>>

\* deliver_tx: the block around message_executed.  A panic unwinds the
\* handler, which poisons the lock as the guard is dropped.
DeliverExecuted ==
    /\ threads.pc["deliver_tx"] = "message_executed"
    /\ \E fails \in BOOLEAN :
          LET e == record_executed(Bridge(1), ThreadCose, threads.response, fails) IN
          /\ cache' = Both(e.st.cache)
          /\ cache_poisoned' = Both(e.st.cache_poisoned)
          /\ threads' = [threads EXCEPT
                            !.pc["deliver_tx"] = IF e.outcome = "ok" THEN "to_bytes" ELSE "idle",
                            !.held = drop(@, "deliver_tx", "cache"),
                            !.recorded = @ \cup {ThreadTx},
                            !.result["deliver_tx"] =
                                CASE e.outcome = "poisoned" ->
                                        Response(DeliverRwLockPoisonedError, <<>>, "")
                                  [] e.outcome = "panic" -> Panicked
                                  [] OTHER -> @]
    /\ UNCHANGED <<validator, migrations, block_time, delivered_ok, deliveries, running, call>>
    /\ UNCHANGED <<backendVars, serverVars>>

\* deliver_tx: the response is serialized and returned.
DeliverReturn ==
    /\ threads.pc["deliver_tx"] = "to_bytes"
    /\ \E ser_fails \in BOOLEAN :
          threads' = [threads EXCEPT
                         !.pc["deliver_tx"] = "idle",
                         !.result["deliver_tx"] =
                             IF ser_fails
                             THEN Response(DeliverTransportResponseError, <<>>, "")
                             ELSE Response(DeliverSuccess, to_bytes(threads.response), "")]
    /\ UNCHANGED <<bridgeVars, backendVars, serverVars>>

CheckThread ==
    CheckStart \/ CheckLockCache \/ CheckValidate \/ CheckLockTime \/ CheckTime

BeginThread ==
    BeginStart \/ BeginLockMigrations \/ BeginUpdate \/ BeginLockTime \/ BeginSetTime
    \/ BeginCall

DeliverThread ==
    DeliverStart \/ DeliverSend \/ DeliverLockMigrations \/ DeliverRewrite
    \/ DeliverLockCache \/ DeliverExecuted \/ DeliverReturn

NextThreads == CheckThread \/ BeginThread \/ DeliverThread

InitThreads == Created("cache") /\ Opened(TRUE) /\ Loaded(AllRegular)

SpecThreads == InitThreads /\ [][NextThreads]_vars

(***************************************************************************)
(* C37: no handler holds more than one of the three locks at a time, none  *)
(* holds a lock while a call of the backend is in progress, and no         *)
(* interleaving of check_tx, deliver_tx and begin_block deadlocks: a       *)
(* handler that waits for a lock it cannot get waits for a handler that    *)
(* holds that lock in a conflicting mode and that is not waiting itself.   *)
(***************************************************************************)
Waiting(h) ==
    /\ Wanted(threads.pc[h]) # None
    /\ ~CanTake(h, Wanted(threads.pc[h])[1])

C37_OneLockAndNoDeadlock ==
    /\ \A h \in Handlers : Cardinality(threads.held[h]) <= 1
    /\ \A h \in Handlers : threads.pc[h] \in BackendCalls => threads.held[h] = {}
    /\ \A h \in Handlers :
          Waiting(h) =>
             \E o \in Handlers \ {h} :
                /\ Wanted(threads.pc[h])[1] \in threads.held[o]
                /\ Wanted(threads.pc[o]) = None
    /\ \A h \in Handlers : threads.pc[h] = "idle" => threads.held[h] = {}

\* check_tx waits for the cache that deliver_tx holds for writing, while
\* begin_block is in its call of the backend.
C37_Witness ==
    /\ threads.pc["check_tx"] = "cache.read"
    /\ threads.held["deliver_tx"] = {"cache"}
    /\ Waiting("check_tx")
    /\ threads.pc["begin_block"] = "abci.beginBlock"

\* deliver_tx waits for the cache while check_tx reads it.
C37_WitnessWriterWaits ==
    /\ threads.pc["deliver_tx"] = "cache.write"
    /\ Waiting("deliver_tx")
    /\ threads.held["check_tx"] = {"cache"}

\* All three locks are held at once, each by another handler.
C37_WitnessAllHeld ==
    /\ threads.held["check_tx"] = {"block_time"}
    /\ threads.held["deliver_tx"] = {"cache"}
    /\ threads.held["begin_block"] = {"migrations"}

(***************************************************************************)
(* C38: with the validator that rejects executed envelopes, a check_tx of  *)
(* the envelope that started after the backend executed it in deliver_tx   *)
(* does not return Success.                                                *)
(***************************************************************************)
\* The check_tx that started last has returned code.
CheckReturned(code) ==
    /\ threads.pc["check_tx"] = "idle"
    /\ threads.result["check_tx"].code = code

C38_NoWindowAfterExecution ==
    validator[1] = "cache" /\ threads.check.after_executed => ~CheckReturned(CheckSuccess)

\* C38, amended: a check_tx of the envelope that took the lock of the cache
\* after deliver_tx left its cache block for the envelope does not return
\* Success: it returns ValidationError when message_executed recorded the
\* envelope, or RwLockPoisonedError when the lock was poisoned.
C38_NoSuccessAfterCacheBlock ==
    validator[1] = "cache" /\ threads.check.locked_after_recorded
       /\ threads.pc["check_tx"] = "idle"
       => /\ threads.result["check_tx"].code
                \in {CheckValidationError, CheckRwLockPoisonedError}
          /\ ~cache_poisoned[1] => threads.result["check_tx"].code = CheckValidationError

\* check_tx started after deliver_tx returned Success for the envelope, and
\* was refused with ValidationError.
C38_Witness ==
    /\ threads.check.after_recorded
    /\ threads.check.locked_after_recorded
    /\ threads.result["deliver_tx"].code = DeliverSuccess
    /\ threads.result["deliver_tx"].data # <<>>
    /\ threads.check.reached = {"validate_envelope"}
    /\ CheckReturned(CheckValidationError)
    /\ ThreadTx \in cache[1]

\* check_tx took the lock after message_executed panicked in deliver_tx.
C38_WitnessPoisoned ==
    /\ threads.check.locked_after_recorded
    /\ threads.result["deliver_tx"] = Panicked
    /\ CheckReturned(CheckRwLockPoisonedError)

\* check_tx started after the backend executed the envelope and is past its
\* validation while deliver_tx waits for the cache.
C38_WitnessWindow ==
    /\ threads.check.after_executed
    /\ threads.pc["check_tx"] = "block_time.read"
    /\ threads.pc["deliver_tx"] = "cache.write"
    /\ ThreadTx \notin cache[1]

(***************************************************************************)
(* many-ledger/src/storage/idstore.rs: the credentials of the id store,    *)
(* kept under the recall phrase and under the address.  Keys and values    *)
(* are byte strings, here sequences of their parts.                        *)
(***************************************************************************)
IDSTORE_ROOT == <<"/idstore/">>

\* IdStoreRootSeparator::value.
RecallPhraseSeparator == <<"00">>
AddressSeparator == <<"01">>

\* minicbor::to_vec of a recall phrase: the header of the array, then the words.
RecallPhrase_to_vec(recall_phrase) == <<"array">> \o recall_phrase

\* minicbor::to_vec and minicbor::decode of a CredentialStorage.
CredentialStorage_to_vec(cred_id, public_key) == <<"map", cred_id, public_key>>

CredentialStorage_decode(bytes) ==
    IF Len(bytes) = 3 /\ bytes[1] = "map"
    THEN Ok([cred_id |-> bytes[2], public_key |-> bytes[3]])
    ELSE Err(<<"deserialization_error">>)

\* A ledger with an empty id store, in a blockchain or on its own.
LedgerStorage_with_idstore(blockchain) ==
    [tree |-> <<>>, disk |-> <<>>, latest_tid |-> InitialEventId,
     current_hash |-> None, blockchain |-> blockchain]

\* persistent_store.get.
persistent_store_get(st, k) == IF k \in DOMAIN st.tree THEN Some(st.tree[k]) ELSE None

\* persistent_store.apply of a batch of puts.
RECURSIVE idstore_apply(_, _)
idstore_apply(tree, batch) ==
    IF batch = <<>> THEN tree
    ELSE LET e == Head(batch) IN
         idstore_apply([k \in DOMAIN tree \cup {e[1]} |-> IF k = e[1] THEN e[2] ELSE tree[k]],
                       Tail(batch))

\* The steps of store that may return a storage error.
IdStoreFailures == {"none", "apply", "maybe_commit"}

\* store: the keys it wrote, or an error.
idstore_store(st, recall_phrase, address, cred_id, public_key, fails) ==
    LET recall_phrase_cbor == RecallPhrase_to_vec(recall_phrase) IN
    IF persistent_store_get(st, recall_phrase_cbor) # None
    THEN Done(st, Err(<<"existing_entry">>), <<>>)
    ELSE
    LET value == CredentialStorage_to_vec(cred_id, public_key)
        by_phrase == IDSTORE_ROOT \o RecallPhraseSeparator \o recall_phrase_cbor
        by_address == IDSTORE_ROOT \o AddressSeparator \o Address_to_vec(address)
        batch == << <<by_phrase, value>>, <<by_address, value>> >>
    IN  IF fails = "apply" THEN Done(st, Err(<<"storage_apply_failed">>), <<>>) ELSE
        LET applied == [st EXCEPT !.tree = idstore_apply(@, batch)] IN
        IF fails = "maybe_commit"
        THEN Done(applied, Err(<<"storage_commit_failed">>), <<"apply">>)
        ELSE Done(maybe_commit(applied), Ok(<<recall_phrase_cbor, by_phrase, by_address>>),
                  IF st.blockchain THEN <<"apply">> ELSE <<"apply", "commit">>)

\* get_from_storage: the value under the key of the separator, and the key.
get_from_storage(st, k, sep) ==
    LET storage_key == IDSTORE_ROOT \o sep \o k IN
    <<persistent_store_get(st, storage_key), storage_key>>

get_from_recall_phrase(st, recall_phrase) ==
    LET got == get_from_storage(st, RecallPhrase_to_vec(recall_phrase), RecallPhraseSeparator) IN
    IF got[1] = None THEN Err(<<"entry_not_found">>)
    ELSE LET v == CredentialStorage_decode(got[1][1]) IN
         IF ~v.ok THEN v
         ELSE Ok(<<v.val.cred_id, v.val.public_key, got[2]>>)

get_from_address(st, address) ==
    LET got == get_from_storage(st, Address_to_vec(address), AddressSeparator) IN
    IF got[1] = None THEN Err(<<"entry_not_found">>)
    ELSE LET v == CredentialStorage_decode(got[1][1]) IN
         IF ~v.ok THEN v
         ELSE Ok(<<v.val.cred_id, v.val.public_key, got[2]>>)

\* The recall phrases, addresses and credentials of the calls.
RecallPhrases == { <<"w0", "w1">>, <<"w2", "w3">> }
IdStoreAddresses == {"a0", "a1"}
Credentials == { <<"c0", "k0">>, <<"c1", "k1">> }

\* A call on the id store.  recorded_before: the recall phrases the
\* successful stores before it were called with; recorded: with this call.
IdStoreCall(name, recall_phrase, address, credential, fails, before, done, recorded_before) ==
    [name |-> name, recall_phrase |-> recall_phrase, address |-> address,
     credential |-> credential, fails |-> fails, before |-> before, val |-> done.val,
     steps |-> done.steps, recorded_before |-> recorded_before,
     recorded |-> IF name = "store" /\ done.val.ok
                  THEN recorded_before \cup {recall_phrase} ELSE recorded_before,
     failures |-> 0]

IdStoreStore ==
    /\ \E recall_phrase \in RecallPhrases, address \in IdStoreAddresses,
          credential \in Credentials, fails \in IdStoreFailures :
          LET done == idstore_store(ledger, recall_phrase, address, credential[1],
                                    credential[2], fails)
          IN
          /\ ledger' = done.st
          /\ ledger_call' =
                IdStoreCall("store", recall_phrase, address, credential, fails, ledger, done,
                            ledger_call.recorded)
    /\ UNCHANGED <<store, operation, ops, commits, blocks, engineVars, codecVars>>
    /\ UNCHANGED <<bridgeVars, threadVars, serverVars>>

IdStoreGetFromRecallPhrase ==
    /\ \E recall_phrase \in RecallPhrases :
          ledger_call' =
             IdStoreCall("get_from_recall_phrase", recall_phrase, Anonymous, <<"", "">>, "none",
                         ledger, Done(ledger, get_from_recall_phrase(ledger, recall_phrase), <<>>),
                         ledger_call.recorded)
    /\ UNCHANGED ledger
    /\ UNCHANGED <<store, operation, ops, commits, blocks, engineVars, codecVars>>
    /\ UNCHANGED <<bridgeVars, threadVars, serverVars>>

IdStoreGetFromAddress ==
    /\ \E address \in IdStoreAddresses :
          ledger_call' =
             IdStoreCall("get_from_address", <<>>, address, <<"", "">>, "none",
                         ledger, Done(ledger, get_from_address(ledger, address), <<>>),
                         ledger_call.recorded)
    /\ UNCHANGED ledger
    /\ UNCHANGED <<store, operation, ops, commits, blocks, engineVars, codecVars>>
    /\ UNCHANGED <<bridgeVars, threadVars, serverVars>>

NextIdStore == IdStoreStore \/ IdStoreGetFromRecallPhrase \/ IdStoreGetFromAddress

InitIdStore ==
    /\ Created("unit")
    /\ Loaded(AllRegular)
    /\ store = Both(KvStoreStorage_new(NoAcl, Root, TRUE))
    /\ operation = Op("new", store, [r \in Replicas |-> Done(store[r], Ok(<<>>), <<"apply", "apply", "commit">>)])
    /\ ops = 0
    /\ commits = 0
    /\ blocks = [current |-> <<>>, before |-> <<>>]
    /\ \E blockchain \in BOOLEAN :
          /\ ledger = LedgerStorage_with_idstore(blockchain)
          /\ ledger_call = IdStoreCall("new", <<>>, Anonymous, <<"", "">>, "none", ledger,
                                       Done(ledger, Ok(<<>>), <<>>), {})

SpecIdStore == InitIdStore /\ [][NextIdStore]_vars

(***************************************************************************)
(* C39: store with a recall phrase that an earlier successful store        *)
(* recorded returns the existing_entry error and leaves the entries of the *)
(* id store as they were.                                                  *)
(***************************************************************************)
C39_StoreRefusesDuplicates ==
    /\ ledger_call.name = "store"
    /\ ledger_call.recall_phrase \in ledger_call.recorded_before
    => /\ ledger_call.val = Err(<<"existing_entry">>)
       /\ ledger.tree = ledger_call.before.tree

\* A second store of a recall phrase succeeded and replaced the credential
\* the first one recorded.
C39_WitnessOverwritten ==
    /\ ledger_call.name = "store"
    /\ ledger_call.val.ok
    /\ ledger_call.recall_phrase \in ledger_call.recorded_before
    /\ get_from_recall_phrase(ledger_call.before, ledger_call.recall_phrase).val[1]
          # get_from_recall_phrase(ledger, ledger_call.recall_phrase).val[1]

(***************************************************************************)
(* many-server/src/validator.rs: validators made of validators.  A leaf is *)
(* a validator of its own: it refuses the hooks it is set to refuse and    *)
(* the envelopes it has seen executed.  calls: the hooks of the leaves     *)
(* that ran, in order.                                                     *)
(***************************************************************************)
Hooks == {"validate_envelope", "validate_request", "message_executed"}

Leaf(name, rejects) == [kind |-> "leaf", name |-> name, rejects |-> rejects, executed |-> {}]
\* (A, B).
Pair(first, second) == [kind |-> "pair", first |-> first, second |-> second]
\* ValidateOnlyRequestValidator::new.
ValidateOnly(backend) == [kind |-> "only", backend |-> backend]
\* ().
Unit == [kind |-> "unit"]

Validated(val, calls) == [val |-> val, calls |-> calls]
Recorded(val, calls, validator_after) == [val |-> val, calls |-> calls, validator |-> validator_after]

RECURSIVE RequestValidator_validate_envelope(_, _)
RECURSIVE RequestValidator_validate_request(_, _)
RECURSIVE RequestValidator_message_executed(_, _, _)

leaf_validate_envelope(leaf, envelope) ==
    Validated(IF "validate_envelope" \in leaf.rejects \/ envelope \in leaf.executed
              THEN Err(<<leaf.name, "validate_envelope">>) ELSE Ok(<<>>),
              << <<leaf.name, "validate_envelope">> >>)

leaf_validate_request(leaf, request) ==
    Validated(IF "validate_request" \in leaf.rejects
              THEN Err(<<leaf.name, "validate_request">>) ELSE Ok(<<>>),
              << <<leaf.name, "validate_request">> >>)

leaf_message_executed(leaf, envelope, response) ==
    IF "message_executed" \in leaf.rejects
    THEN Recorded(Err(<<leaf.name, "message_executed">>),
                  << <<leaf.name, "message_executed">> >>, leaf)
    ELSE Recorded(Ok(<<>>), << <<leaf.name, "message_executed">> >>,
                  [leaf EXCEPT !.executed = @ \cup {envelope}])

\* A pair that consults both validators whatever the first one says.
pair_validate_envelope_both(pair, envelope) ==
    LET a == RequestValidator_validate_envelope(pair.first, envelope)
        b == RequestValidator_validate_envelope(pair.second, envelope)
    IN  Validated(IF a.val.ok THEN b.val ELSE a.val, a.calls \o b.calls)

\* impl RequestValidator for (A, B).
pair_validate_envelope(pair, envelope) ==
    LET a == RequestValidator_validate_envelope(pair.first, envelope) IN
    IF ~a.val.ok THEN a
    ELSE LET b == RequestValidator_validate_envelope(pair.second, envelope) IN
         Validated(b.val, a.calls \o b.calls)

pair_validate_request(pair, request) ==
    LET a == RequestValidator_validate_request(pair.first, request) IN
    IF ~a.val.ok THEN a
    ELSE LET b == RequestValidator_validate_request(pair.second, request) IN
         Validated(b.val, a.calls \o b.calls)

pair_message_executed(pair, envelope, response) ==
    LET a == RequestValidator_message_executed(pair.first, envelope, response) IN
    IF ~a.val.ok THEN Recorded(a.val, a.calls, [pair EXCEPT !.first = a.validator])
    ELSE LET b == RequestValidator_message_executed(pair.second, envelope, response) IN
         Recorded(b.val, a.calls \o b.calls, Pair(a.validator, b.validator))

\* impl RequestValidator for ValidateOnlyRequestValidator<T>: message_executed
\* is the default of the trait.
only_validate_envelope(only, envelope) ==
    RequestValidator_validate_envelope(only.backend, envelope)

only_validate_request(only, request) ==
    RequestValidator_validate_request(only.backend, request)

only_message_executed(only, envelope, response) ==
    Recorded(unit_message_executed(envelope, response), <<>>, only)

\* The hooks of a validator of any kind.
RequestValidator_validate_envelope(validator_, envelope) ==
    CASE validator_.kind = "leaf" -> leaf_validate_envelope(validator_, envelope)
      [] validator_.kind = "pair" -> pair_validate_envelope(validator_, envelope)
      [] validator_.kind = "only" -> only_validate_envelope(validator_, envelope)
      [] OTHER -> Validated(unit_validate_envelope(envelope), <<>>)

RequestValidator_validate_request(validator_, request) ==
    CASE validator_.kind = "leaf" -> leaf_validate_request(validator_, request)
      [] validator_.kind = "pair" -> pair_validate_request(validator_, request)
      [] validator_.kind = "only" -> only_validate_request(validator_, request)
      [] OTHER -> Validated(unit_validate_request(request), <<>>)

RequestValidator_message_executed(validator_, envelope, response) ==
    CASE validator_.kind = "leaf" -> leaf_message_executed(validator_, envelope, response)
      [] validator_.kind = "pair" -> pair_message_executed(validator_, envelope, response)
      [] validator_.kind = "only" -> only_message_executed(validator_, envelope, response)
      [] OTHER -> Recorded(unit_message_executed(envelope, response), <<>>, validator_)

\* What a leaf refuses: nothing, or one of its hooks.
Rejections == {{}} \cup { {h} : h \in Hooks }

\* The validators: a pair of leaves, of a leaf and a wrapped leaf, a wrapped
\* pair, a pair in a pair, a wrapped leaf, and a leaf with ().
ComposedValidators ==
    UNION { LET A == Leaf("A", ra)
                B == Leaf("B", rb)
            IN  { Pair(A, B), Pair(ValidateOnly(A), B), Pair(A, ValidateOnly(B)),
                  ValidateOnly(Pair(A, B)), Pair(Pair(A, B), Leaf("C", {})), Pair(A, Unit) }
            : ra \in Rejections, rb \in Rejections }
    \cup { ValidateOnly(Leaf("A", ra)) : ra \in Rejections }

\* The envelopes the hooks are called with.
ComposedEnvelopes == {RequestTx(Some(BaseTime)), RequestTx(None)}

ComposedCall(hook, envelope, before, out, after) ==
    [validator |-> after, hook |-> hook, envelope |-> envelope, before |-> before,
     val |-> out.val, calls |-> out.calls]

ValidateEnvelope ==
    /\ \E envelope \in ComposedEnvelopes :
          composed' = ComposedCall("validate_envelope", envelope, composed.validator,
                         RequestValidator_validate_envelope(composed.validator, envelope),
                         composed.validator)
    /\ UNCHANGED <<bridgeVars, backendVars, threadVars>>

ValidateRequest ==
    /\ \E envelope \in ComposedEnvelopes :
          composed' = ComposedCall("validate_request", envelope, composed.validator,
                         RequestValidator_validate_request(composed.validator,
                                                           try_from(envelope).val),
                         composed.validator)
    /\ UNCHANGED <<bridgeVars, backendVars, threadVars>>

MessageExecuted ==
    /\ \E envelope \in ComposedEnvelopes :
          LET out == RequestValidator_message_executed(composed.validator, envelope,
                                                       DefaultResponse)
          IN  composed' = ComposedCall("message_executed", envelope, composed.validator,
                                       out, out.validator)
    /\ UNCHANGED <<bridgeVars, backendVars, threadVars>>

NextComposed == ValidateEnvelope \/ ValidateRequest \/ MessageExecuted

InitComposed ==
    /\ validator = Both("unit")
    /\ cache = Both({})
    /\ cache_poisoned = Both(FALSE)
    /\ migrations = Both([enabled |-> TRUE, block_height |-> LegacyHeight,
                          current_height |-> 0])
    /\ block_time = Both(None)
    /\ delivered_ok = Both({})
    /\ deliveries = 0
    /\ running = TRUE
    /\ call = Call("create", GarbageTx, NoAnswer, Both(NoStamp), NoFate, Both(NoResponse),
                   Both({}), Both(FALSE), Both(<<>>))
    /\ threads = NoThreads
    /\ Opened(TRUE)
    /\ Loaded(AllRegular)
    /\ \E composite \in ComposedValidators :
          composed = [validator |-> composite, hook |-> "new", envelope |-> GarbageTx,
                      before |-> composite, val |-> Ok(<<>>), calls |-> <<>>]

SpecComposed == InitComposed /\ [][NextComposed]_vars

(***************************************************************************)
(* C40: for a pair (A, B), validate_envelope and validate_request return   *)
(* Ok exactly when A and B both do, with A's error and B not consulted     *)
(* when A fails; message_executed calls A, then B unless A failed; and a   *)
(* ValidateOnlyRequestValidator never calls message_executed of the        *)
(* validator it wraps.                                                     *)
(***************************************************************************)
\* The names of the leaves of a validator.
RECURSIVE LeavesOf(_)
LeavesOf(validator_) ==
    CASE validator_.kind = "leaf" -> {validator_.name}
      [] validator_.kind = "pair" -> LeavesOf(validator_.first) \cup LeavesOf(validator_.second)
      [] validator_.kind = "only" -> LeavesOf(validator_.backend)
      [] OTHER -> {}

\* The leaves whose hooks ran in the last call.
ConsultedLeaves == { composed.calls[i][1] : i \in DOMAIN composed.calls }

\* What the hook of the last call gives on a validator on its own.
HookOn(validator_) ==
    CASE composed.hook = "validate_envelope" ->
            RequestValidator_validate_envelope(validator_, composed.envelope)
      [] composed.hook = "validate_request" ->
            RequestValidator_validate_request(validator_, try_from(composed.envelope).val)
      [] OTHER ->
            RequestValidator_message_executed(validator_, composed.envelope, DefaultResponse)

C40_PairAndValidateOnly ==
    /\ composed.hook \in Hooks /\ composed.before.kind = "pair" =>
          LET a == HookOn(composed.before.first)
              b == HookOn(composed.before.second)
          IN  /\ composed.val.ok <=> a.val.ok /\ b.val.ok
              /\ ~a.val.ok =>
                    /\ composed.val = a.val
                    /\ composed.calls = a.calls
                    /\ ConsultedLeaves \cap LeavesOf(composed.before.second) = {}
                    /\ composed.validator.second = composed.before.second
              /\ a.val.ok =>
                    /\ composed.val = b.val
                    /\ composed.calls = a.calls \o b.calls
              /\ composed.hook = "message_executed" /\ a.val.ok =>
                    composed.validator = Pair(a.validator, b.validator)
              /\ composed.hook # "message_executed" => composed.validator = composed.before
    /\ composed.hook \in Hooks /\ composed.before.kind = "only" =>
          /\ composed.validator = composed.before
          /\ composed.hook = "message_executed" =>
                composed.val = Ok(<<>>) /\ composed.calls = <<>>
          /\ composed.hook # "message_executed" =>
                /\ composed.val = HookOn(composed.before.backend).val
                /\ composed.calls = HookOn(composed.before.backend).calls

\* validate_envelope on (A, B) where both refuse: the error is A's and B was
\* not asked.
C40_Witness ==
    /\ composed.hook = "validate_envelope"
    /\ composed.before.kind = "pair"
    /\ composed.before.first.kind = "leaf" /\ composed.before.second.kind = "leaf"
    /\ ~HookOn(composed.before.first).val.ok
    /\ ~HookOn(composed.before.second).val.ok
    /\ composed.val = Err(<<"A", "validate_envelope">>)
    /\ ConsultedLeaves = {"A"}

\* message_executed on (A, B) ran A, then B, and both recorded the envelope.
C40_WitnessExecutedBoth ==
    /\ composed.hook = "message_executed"
    /\ composed.before.kind = "pair"
    /\ composed.calls = << <<"A", "message_executed">>, <<"B", "message_executed">> >>
    /\ composed.val.ok
    /\ composed.envelope \in composed.validator.first.executed
    /\ composed.envelope \in composed.validator.second.executed

\* message_executed on (A, B) where A fails: B is skipped.
C40_WitnessExecutedSkipsSecond ==
    /\ composed.hook = "message_executed"
    /\ composed.before.kind = "pair"
    /\ composed.before.second.kind = "leaf"
    /\ composed.calls = << <<"A", "message_executed">> >>
    /\ ~composed.val.ok
    /\ composed.validator.second.executed = {}

\* message_executed on a wrapper whose validator would have failed it.
C40_WitnessValidateOnly ==
    /\ composed.hook = "message_executed"
    /\ composed.before.kind = "only"
    /\ composed.before.backend.kind = "leaf"
    /\ ~RequestValidator_message_executed(composed.before.backend, composed.envelope,
                                          DefaultResponse).val.ok
    /\ composed.val.ok
    /\ composed.calls = <<>>

\* validate_request on (A, B): A accepts and B refuses.
C40_WitnessSecondRefuses ==
    /\ composed.hook = "validate_request"
    /\ composed.before.kind = "pair"
    /\ composed.val = Err(<<"B", "validate_request">>)
    /\ ConsultedLeaves = {"A", "B"}

====
